---------------------------- MODULE Spec2Model ----------------------------
(***************************************************************************)
(* Normalisation-and-chunking pipeline of the RAGFlow "Brain Transplant"   *)
(* design (src/unnamed/part_010):                                          *)
(*   - the stack-based header tracking scan (section 10 of the design),    *)
(*   - the StandardizedDocument content/elements cache (section 5),        *)
(*   - the Parser Client retry policy (section 4.4).                       *)
(* Text is modelled character by character: a line is a sequence of       *)
(* one-character strings, a section buffer is a sequence of characters     *)
(* in which every scanned line is followed by a newline character.         *)
(***************************************************************************)
EXTENDS Integers, Sequences, FiniteSets, TLC

(***************************************************************************)
(* Bounds of the model.                                                    *)
(***************************************************************************)
MaxLines == 4

\* operations performed on one StandardizedDocument
MaxCalls == 4

\* largest max_attempts among the retry policies tried
MaxPolicyAttempts == 4

\* longest time the backend takes to answer one attempt
MaxLatency == 1

\* longest legacy scalar header_path, in characters
MaxPathLen == 4

\* longest array header_path, in segments
MaxSegments == 2

\* longest content given to the scan before the token-limit pass, in lines
MaxSplitLines == 4

(***************************************************************************)
(* Characters and the lines the inputs are built from.                     *)
(***************************************************************************)
NL == "\n"

\* the backtick character (a string literal cannot hold it)
Backtick == "backtick"

Whitespace == {" ", "\t", "\n"}

FenceMark == <<Backtick, Backtick, Backtick>>

LineH1A == <<"#", " ", "A">>

LineH2B == <<"#", "#", " ", "B">>

LineH1C == <<"#", " ", "C">>

\* a level-3 header whose separator is a tab (the pattern's \s accepts it)
LineH3Tab == <<"#", "#", "#", "\t", "D">>

LineH7 == <<"#", "#", "#", "#", "#", "#", "#", " ", "G">>

LineText1 == <<"t", "1">>

LineText2 == <<"t", "2">>

LineText3 == <<"t", "3">>

LineBlank == <<" ">>

LineFence == <<Backtick, Backtick, Backtick>>

LineIndentedFence == <<" ", Backtick, Backtick, Backtick, "p">>

LineNoSpace == <<"#", "x">>

Lines ==
  { LineH1A, LineH2B, LineH3Tab, LineH7, LineText1, LineBlank,
    LineFence, LineIndentedFence, LineNoSpace }

\* "# A\ntext1\n## B\ntext2\n# C\ntext3"
ScenarioLines ==
  << LineH1A, LineText1, LineH2B, LineText2, LineH1C, LineText3 >>

RECURSIVE SeqsUpTo(_, _)
SeqsUpTo(S, n) ==
  IF n = 0 THEN { <<>> }
  ELSE LET shorter == SeqsUpTo(S, n - 1)
       IN  shorter \cup { Append(s, x) : s \in shorter, x \in S }

Inputs == SeqsUpTo(Lines, MaxLines) \cup { ScenarioLines }

(***************************************************************************)
(* String helpers of the scan.                                             *)
(***************************************************************************)
\* str.strip() is empty: every character is whitespace.
IsBlank(s) == \A i \in 1..Len(s) : s[i] \in Whitespace

\* str.lstrip()
RECURSIVE LStrip(_)
LStrip(s) ==
  IF s # <<>> /\ Head(s) \in Whitespace THEN LStrip(Tail(s)) ELSE s

\* str.startswith(prefix)
StartsWith(s, prefix) ==
  Len(s) >= Len(prefix) /\ SubSeq(s, 1, Len(prefix)) = prefix

\* line.lstrip().startswith(FenceMark)
IsFenceLine(line) == StartsWith(LStrip(line), FenceMark)

\* length of the greedy group (#+) at the start of the line
RECURSIVE LeadingHashes(_)
LeadingHashes(s) ==
  IF s # <<>> /\ Head(s) = "#" THEN 1 + LeadingHashes(Tail(s)) ELSE 0

\* re.match(r"^(#+)\s(.*)", line) succeeds
HeaderMatch(line) ==
  LET n == LeadingHashes(line)
  IN  n >= 1 /\ Len(line) > n /\ line[n + 1] \in Whitespace

\* len(header_match.group(1))
HeaderLevel(line) == LeadingHashes(line)

\* header_match.group(2)
HeaderText(line) == SubSeq(line, LeadingHashes(line) + 2, Len(line))

\* '#' * level
RECURSIVE Hashes(_)
Hashes(n) == IF n = 0 THEN <<>> ELSE <<"#">> \o Hashes(n - 1)

\* f"{'#' * level} {text}\n"
HeaderSection(level, text) == Hashes(level) \o <<" ">> \o text \o <<NL>>

\* the append without its newline: current_section += line
AppendLineNoNewline(section, line) == section \o line

\* current_section += line + "\n"
AppendLine(section, line) == section \o line \o <<NL>>

\* the pop loop with ">" in place of ">=": a sibling header is left open
RECURSIVE PopDeeperOnly(_, _)
PopDeeperOnly(stack, level) ==
  IF stack # <<>> /\ stack[Len(stack)][1] > level
  THEN PopDeeperOnly(SubSeq(stack, 1, Len(stack) - 1), level)
  ELSE stack

\* while header_stack and header_stack[-1][0] >= level: header_stack.pop()
RECURSIVE PopHeaders(_, _)
PopHeaders(stack, level) ==
  IF stack # <<>> /\ stack[Len(stack)][1] >= level
  THEN PopHeaders(SubSeq(stack, 1, Len(stack) - 1), level)
  ELSE stack

\* the header texts of the stack, root first
StackTexts(stack) == [i \in 1..Len(stack) |-> stack[i][2]]

\* a section is emitted only when a body follows its first line
ShouldEmitWithBody(section) ==
  /\ ~IsBlank(section)
  /\ Cardinality({ i \in 1..Len(section) : section[i] = NL }) > 1

\* if current_section.strip():
ShouldEmit(section) == ~IsBlank(section)

\* an emission that stores the stack itself: the chunks emitted before
\* follow the stack as it is now
EmitNodeAliased(out, section, stack) ==
  Append([ i \in 1..Len(out) |-> [ out[i] EXCEPT !.header_path = StackTexts(stack) ] ],
         [ text |-> section, header_path |-> StackTexts(stack) ])

\* emit_node(current_section, header_stack)
EmitNode(out, section, stack) ==
  Append(out, [text |-> section, header_path |-> StackTexts(stack)])

(***************************************************************************)
(* One iteration of "for line in lines", as a function of the scan state   *)
(* st = [header_stack, current_section, code_block, chunks].               *)
(***************************************************************************)
\* a fence branch that sets the flag instead of toggling it
FenceStepOpensOnly(st, line) ==
  [st EXCEPT !.code_block = TRUE,
             !.current_section = AppendLine(st.current_section, line)]

FenceStep(st, line) ==
  [st EXCEPT !.code_block = ~st.code_block,
             !.current_section = AppendLine(st.current_section, line)]

\* the header branch with the emission moved after the push
HeaderStepEmitAfterPush(st, line) ==
  LET level   == HeaderLevel(line)
      text    == HeaderText(line)
      pushed  == Append(PopHeaders(st.header_stack, level), <<level, text>>)
  IN  [ header_stack    |-> pushed,
        current_section |-> HeaderSection(level, text),
        code_block      |-> st.code_block,
        chunks          |-> IF ShouldEmit(st.current_section)
                            THEN EmitNode(st.chunks, st.current_section, pushed)
                            ELSE st.chunks ]

HeaderStep(st, line) ==
  LET emitted == IF ShouldEmit(st.current_section)
                 THEN EmitNode(st.chunks, st.current_section, st.header_stack)
                 ELSE st.chunks
      level   == HeaderLevel(line)
      text    == HeaderText(line)
      popped  == PopHeaders(st.header_stack, level)
  IN  [ header_stack    |-> Append(popped, <<level, text>>),
        current_section |-> HeaderSection(level, text),
        code_block      |-> st.code_block,
        chunks          |-> emitted ]

\* a body branch in which a blank line ends an open code block
BodyStepClosesFence(st, line) ==
  [st EXCEPT !.current_section = AppendLine(st.current_section, line),
             !.code_block = st.code_block /\ ~IsBlank(line)]

BodyStep(st, line) ==
  [st EXCEPT !.current_section = AppendLine(st.current_section, line)]

\* the scan without the code_block guard
ParsesHeadersAlways(st) == TRUE

ParsesHeaders(st) == ~st.code_block

ScanLine(st, line) ==
  IF IsFenceLine(line) THEN FenceStep(st, line)
  ELSE IF ParsesHeaders(st) /\ HeaderMatch(line) THEN HeaderStep(st, line)
  ELSE BodyStep(st, line)

\* the scan without its final emission
FinalStepSkipped(st) == st

\* "Emit final section"
FinalStep(st) ==
  IF ShouldEmit(st.current_section)
  THEN [st EXCEPT !.chunks =
          EmitNode(st.chunks, st.current_section, st.header_stack)]
  ELSE st

ScanStart ==
  [ header_stack |-> <<>>, current_section |-> <<>>,
    code_block |-> FALSE, chunks |-> <<>> ]

RECURSIVE ScanFrom(_, _)
ScanFrom(st, ls) ==
  IF ls = <<>> THEN st ELSE ScanFrom(ScanLine(st, Head(ls)), Tail(ls))

\* the whole run of the scan over a list of lines
ChunkLines(ls) == FinalStep(ScanFrom(ScanStart, ls)).chunks

(***************************************************************************)
(* State of the chunking scan.                                             *)
(***************************************************************************)
VARIABLES lines, pos, header_stack, current_section, code_block, chunks, pc

(***************************************************************************)
(* State of one StandardizedDocument, with the calls made on it so far     *)
(* (operation, argument, returned value).                                  *)
(***************************************************************************)
VARIABLES _content, _elements, calls

(***************************************************************************)
(* State of one Parser Client invocation under a Retry Policy.             *)
(***************************************************************************)
VARIABLES policy, attempts, clock, starts, delays, latencies, errors,
          last_error, outcome, client_pc

(***************************************************************************)
(* State of one Orchestrator call process(rawDocument, config).            *)
(***************************************************************************)
VARIABLES chain, candidate, invocations, chain_errors, ir_content, warnings,
          result, orch_pc

(***************************************************************************)
(* State of one use of the Metadata Normalizer on a persisted record.      *)
(***************************************************************************)
VARIABLES rawValue, normalized, renormalized, norm_pc

(***************************************************************************)
(* State of the document table under the background migration and live     *)
(* traffic: the records followed one by one, the number of further legacy  *)
(* records, the migration's open transaction, the last live read.          *)
(***************************************************************************)
VARIABLES table, backlog, batch, batch_rest, batch_read, last_read, mig_pc

(***************************************************************************)
(* State of the secondary token-limit pass over the emitted sections.      *)
(***************************************************************************)
VARIABLES sections, chunk_token_num, overlapped_percent, sub_chunks, split_pc

(***************************************************************************)
(* State of the document pipelines that run concurrently, and of the       *)
(* process-wide feature flag.                                              *)
(***************************************************************************)
VARIABLES flag, docs, log, generated

(***************************************************************************)
(* State of the file-list page around one use of useDeleteFile: the        *)
(* pagination of the router, the totals of the active and of an inactive   *)
(* cached file-list query, the files being deleted, and the calls of       *)
(* setPaginationParams.                                                    *)
(***************************************************************************)
VARIABLES page, size, total, stale_total, fileIds, pagination_calls, file_pc

(***************************************************************************)
(* The Parser Client attempts made since the start of the process call.    *)
(***************************************************************************)
VARIABLE parser_attempts

chunkVars ==
  << lines, pos, header_stack, current_section, code_block, chunks, pc >>

docVars == << _content, _elements, calls >>

clientVars ==
  << policy, attempts, clock, starts, delays, latencies, errors, last_error,
     outcome, client_pc >>

orchVars ==
  << chain, candidate, invocations, chain_errors, ir_content, warnings,
     result, orch_pc >>

normVars == << rawValue, normalized, renormalized, norm_pc >>

migVars ==
  << table, backlog, batch, batch_rest, batch_read, last_read, mig_pc >>

splitVars ==
  << sections, chunk_token_num, overlapped_percent, sub_chunks, split_pc >>

pipeVars == << flag, docs, log, generated >>

fileVars ==
  << page, size, total, stale_total, fileIds, pagination_calls, file_pc >>

\* the file-list page and the tally of parser attempts
restVars == << fileVars, parser_attempts >>

\* the components added to the first five
laterVars == << migVars, splitVars, pipeVars, restVars >>

vars == << chunkVars, docVars, clientVars, orchVars, normVars, laterVars >>

ScanState ==
  [ header_stack |-> header_stack, current_section |-> current_section,
    code_block |-> code_block, chunks |-> chunks ]

SetScanState(st) ==
  /\ header_stack' = st.header_stack
  /\ current_section' = st.current_section
  /\ code_block' = st.code_block
  /\ chunks' = st.chunks

ChunkStart ==
  /\ lines \in Inputs
  /\ pos = 1
  /\ header_stack = <<>>
  /\ current_section = <<>>
  /\ code_block = FALSE
  /\ chunks = <<>>
  /\ pc = "scan"

ScanFence ==
  /\ pc = "scan" /\ pos <= Len(lines)
  /\ IsFenceLine(lines[pos])
  /\ SetScanState(ScanLine(ScanState, lines[pos]))
  /\ pos' = pos + 1
  /\ UNCHANGED << lines, pc >>
  /\ UNCHANGED << docVars, clientVars, orchVars, normVars, laterVars >>

ScanHeader ==
  /\ pc = "scan" /\ pos <= Len(lines)
  /\ ~IsFenceLine(lines[pos])
  /\ ParsesHeaders(ScanState) /\ HeaderMatch(lines[pos])
  /\ SetScanState(ScanLine(ScanState, lines[pos]))
  /\ pos' = pos + 1
  /\ UNCHANGED << lines, pc >>
  /\ UNCHANGED << docVars, clientVars, orchVars, normVars, laterVars >>

ScanBody ==
  /\ pc = "scan" /\ pos <= Len(lines)
  /\ ~IsFenceLine(lines[pos])
  /\ ~(ParsesHeaders(ScanState) /\ HeaderMatch(lines[pos]))
  /\ SetScanState(ScanLine(ScanState, lines[pos]))
  /\ pos' = pos + 1
  /\ UNCHANGED << lines, pc >>
  /\ UNCHANGED << docVars, clientVars, orchVars, normVars, laterVars >>

EmitFinal ==
  /\ pc = "scan" /\ pos > Len(lines)
  /\ SetScanState(FinalStep(ScanState))
  /\ pc' = "done"
  /\ UNCHANGED << lines, pos >>
  /\ UNCHANGED << docVars, clientVars, orchVars, normVars, laterVars >>

ChunkNext == ScanFence \/ ScanHeader \/ ScanBody \/ EmitFinal

\* no scan is running
ChunkIdle ==
  /\ lines = <<>> /\ pos = 1 /\ header_stack = <<>> /\ current_section = <<>>
  /\ code_block = FALSE /\ chunks = <<>> /\ pc = "idle"

(***************************************************************************)
(* StandardizedDocument: content, and the element cache derived from it.   *)
(* An Optional value is <<>> for None and <<v>> for the value v.           *)
(***************************************************************************)
None == <<>>

Some(v) == <<v>>

\* level of an element that is no heading (Optional[int] = None)
NoLevel == 0

Element(type, content, level) ==
  [ type |-> type, content |-> content, level |-> level ]

\* _parse_elements(content): the element of each line, found by the header
\* scan's own tests (fence lines toggle the code block, a header-pattern
\* line outside a code block is a heading, any other line is a paragraph)
ParseElements(content) ==
  [ i \in 1..Len(content) |->
      IF \/ IsFenceLine(content[i])
         \/ ScanFrom(ScanStart, SubSeq(content, 1, i - 1)).code_block
      THEN Element("code_block", content[i], NoLevel)
      ELSE IF HeaderMatch(content[i])
      THEN Element("heading", HeaderText(content[i]), HeaderLevel(content[i]))
      ELSE Element("paragraph", content[i], NoLevel) ]

\* the content setter without the invalidation of the cache
ContentSetterKeepsCache(d, value) == [d EXCEPT !.content = value]

\* a setter that invalidates the cache only when the content differs
ContentSetterIfChanged(d, value) ==
  IF value = d.content THEN d ELSE [ content |-> value, elements |-> None ]

\* @content.setter
ContentSetter(d, value) == [ content |-> value, elements |-> None ]

\* @property content
ContentGetter(d) == d.content

\* a getter that derives the elements at every read
ElementsGetterReparse(d) == [d EXCEPT !.elements = Some(ParseElements(d.content))]

\* @property elements: the document after the read (its cache filled)
ElementsGetter(d) ==
  IF d.elements = None
  THEN [d EXCEPT !.elements = Some(ParseElements(d.content))]
  ELSE d

\* populate_elements(elements)
PopulateElementsOf(d, elements) == [d EXCEPT !.elements = Some(elements)]

Document == [ content |-> _content, elements |-> _elements ]

SetDocument(d) == _content' = d.content /\ _elements' = d.elements

DocContents ==
  { <<>>, << LineH1A, LineText1 >>, << LineH2B >>, << LineText1 >> }

ElementLists ==
  { << Element("heading", <<"A">>, 1), Element("paragraph", LineText1, NoLevel) >>,
    << Element("table", <<"x">>, NoLevel) >>,
    << Element("heading", <<"G">>, 7) >>,
    << Element("sidebar", <<"x">>, NoLevel) >> }

Call(op, arg, ret) == [ op |-> op, arg |-> arg, ret |-> ret ]

\* the document as an Adapter constructs it
DocStart ==
  /\ _content \in DocContents
  /\ _elements = None
  /\ calls = <<>>

DocIdle == _content = <<>> /\ _elements = None /\ calls = <<>>

SetContent ==
  /\ Len(calls) < MaxCalls
  /\ \E value \in DocContents :
       /\ SetDocument(ContentSetter(Document, value))
       /\ calls' = Append(calls, Call("set_content", value, None))
  /\ UNCHANGED << chunkVars, clientVars, orchVars, normVars, laterVars >>

ReadContent ==
  /\ Len(calls) < MaxCalls
  /\ calls' = Append(calls, Call("content", None, ContentGetter(Document)))
  /\ UNCHANGED << _content, _elements, chunkVars, clientVars, orchVars,
                  normVars, laterVars >>

ReadElements ==
  /\ Len(calls) < MaxCalls
  /\ SetDocument(ElementsGetter(Document))
  /\ calls' = Append(calls, Call("elements", None,
                                 ElementsGetter(Document).elements[1]))
  /\ UNCHANGED << chunkVars, clientVars, orchVars, normVars, laterVars >>

PopulateElements ==
  /\ Len(calls) < MaxCalls
  /\ \E elements \in ElementLists :
       /\ SetDocument(PopulateElementsOf(Document, elements))
       /\ calls' = Append(calls, Call("populate_elements", elements, None))
  /\ UNCHANGED << chunkVars, clientVars, orchVars, normVars, laterVars >>

DocNext == SetContent \/ ReadContent \/ ReadElements \/ PopulateElements

(***************************************************************************)
(* Parser Client: one invocation of a backend under a Retry Policy.        *)
(***************************************************************************)
DefaultMaxAttempts == 3

DefaultTotalDeadline == 30

DefaultInitialDelay == 1

DefaultMultiplier == 2

DefaultMaxDelay == 5

DefaultPolicy ==
  [ max_attempts       |-> DefaultMaxAttempts,
    total_deadline     |-> DefaultTotalDeadline,
    initial_delay      |-> DefaultInitialDelay,
    backoff_multiplier |-> DefaultMultiplier,
    max_delay          |-> DefaultMaxDelay ]

Policies ==
  { DefaultPolicy } \cup
  [ max_attempts       : 1..MaxPolicyAttempts,
    total_deadline     : { 4, DefaultTotalDeadline },
    initial_delay      : { 1, 2 },
    backoff_multiplier : { 1, 2, 3 },
    max_delay          : { DefaultMaxDelay } ]

RetryableKinds == { "timeout", "rate_limited", "server_error" }

NonRetryableKinds == { "malformed_input", "unsupported_format" }

ErrorKinds == RetryableKinds \cup NonRetryableKinds

\* a policy under which every error is retried
RetryableAlways(kind) == TRUE

\* ParserError.retryable
Retryable(kind) == kind \in RetryableKinds

Min(a, b) == IF a <= b THEN a ELSE b

RECURSIVE Pow(_, _)
Pow(b, e) == IF e = 0 THEN 1 ELSE b * Pow(b, e - 1)

\* the backoff without its cap
BackoffDelayUncapped(p, attempt) ==
  p.initial_delay * Pow(p.backoff_multiplier, attempt)

\* delay = min(initial_delay * multiplier^attempt, max_delay), attempt 0-based
BackoffDelay(p, attempt) ==
  Min(p.initial_delay * Pow(p.backoff_multiplier, attempt), p.max_delay)

\* an exhaustion test that lets one more attempt through
AttemptsExhaustedLate(p, made) == made > p.max_attempts

\* max_attempts reached
AttemptsExhausted(p, made) == made >= p.max_attempts

\* a deadline test that lets the instant of expiry through
DeadlineElapsedLate(p, t) == t > p.total_deadline

\* total_deadline would have elapsed when the time t comes
DeadlineElapsed(p, t) == t >= p.total_deadline

\* a client that keeps the error of its first attempt
SurfacedErrorFirst(errs) == errs[1]

\* the error a failed invocation surfaces: that of the last attempt made
SurfacedError(errs) == errs[Len(errs)]

ClientStart ==
  /\ policy \in Policies
  /\ attempts = 0
  /\ clock = 0
  /\ starts = <<>>
  /\ delays = <<>>
  /\ latencies = <<>>
  /\ errors = <<>>
  /\ last_error = "none"
  /\ outcome = "none"
  /\ client_pc = "ready"

ClientIdle ==
  /\ policy = DefaultPolicy /\ attempts = 0 /\ clock = 0 /\ starts = <<>>
  /\ delays = <<>> /\ latencies = <<>> /\ errors = <<>>
  /\ last_error = "none" /\ outcome = "none" /\ client_pc = "idle"

\* an attempt starts
CallBackend ==
  /\ client_pc = "ready"
  /\ attempts' = attempts + 1
  /\ starts' = Append(starts, clock)
  /\ client_pc' = "in_flight"
  /\ parser_attempts' = parser_attempts + 1
  /\ UNCHANGED << policy, clock, delays, latencies, errors, last_error,
                  outcome >>
  /\ UNCHANGED << chunkVars, docVars, orchVars, normVars, migVars, splitVars,
                  pipeVars, fileVars >>

\* the backend answers with its native output
ReplySuccess ==
  /\ client_pc = "in_flight"
  /\ \E latency \in 0..MaxLatency :
       /\ ~DeadlineElapsed(policy, clock + latency)
       /\ clock' = clock + latency
       /\ latencies' = Append(latencies, latency)
  /\ outcome' = "success"
  /\ client_pc' = "returned"
  /\ UNCHANGED << policy, attempts, starts, delays, errors, last_error >>
  /\ UNCHANGED << chunkVars, docVars, orchVars, normVars, laterVars >>

\* what follows a failed attempt: the error surfaces, or a backoff begins
AfterFailure(kind, now) ==
  IF /\ Retryable(kind)
     /\ ~AttemptsExhausted(policy, attempts)
     /\ ~DeadlineElapsed(policy, now + BackoffDelay(policy, attempts - 1))
  THEN /\ client_pc' = "backoff"
       /\ outcome' = outcome
  ELSE /\ client_pc' = "returned"
       /\ outcome' = "error"

\* the backend answers with a ParserError
ReplyError ==
  /\ client_pc = "in_flight"
  /\ \E latency \in 0..MaxLatency, kind \in ErrorKinds :
       /\ ~DeadlineElapsed(policy, clock + latency)
       /\ clock' = clock + latency
       /\ latencies' = Append(latencies, latency)
       /\ errors' = Append(errors, kind)
       /\ last_error' = SurfacedError(Append(errors, kind))
       /\ AfterFailure(kind, clock + latency)
  /\ UNCHANGED << policy, attempts, starts, delays >>
  /\ UNCHANGED << chunkVars, docVars, orchVars, normVars, laterVars >>

\* the backend has not answered when total_deadline expires: the attempt
\* in flight is aborted
DeadlineAbort ==
  /\ client_pc = "in_flight"
  /\ clock' = policy.total_deadline
  /\ latencies' = Append(latencies, policy.total_deadline - clock)
  /\ errors' = Append(errors, "timeout")
  /\ last_error' = SurfacedError(Append(errors, "timeout"))
  /\ outcome' = "error"
  /\ client_pc' = "returned"
  /\ UNCHANGED << policy, attempts, starts, delays >>
  /\ UNCHANGED << chunkVars, docVars, orchVars, normVars, laterVars >>

\* the backoff delay passes
Backoff ==
  /\ client_pc = "backoff"
  /\ clock' = clock + BackoffDelay(policy, attempts - 1)
  /\ delays' = Append(delays, BackoffDelay(policy, attempts - 1))
  /\ client_pc' = "ready"
  /\ UNCHANGED << policy, attempts, starts, latencies, errors, last_error,
                  outcome >>
  /\ UNCHANGED << chunkVars, docVars, orchVars, normVars, laterVars >>

ClientNext ==
  CallBackend \/ ReplySuccess \/ ReplyError \/ DeadlineAbort \/ Backoff
(***************************************************************************)
(* Orchestrator: process(rawDocument, config) walks the fallback chain,    *)
(* invoking the Parser Client of one candidate at a time, then validates   *)
(* the Adapter's candidate document.                                       *)
(***************************************************************************)
Backends == << "docling", "mineru", "deepdoc" >>

\* the configured fallback chains: the primary and its fallbacks in order
Chains ==
  { SubSeq(Backends, 1, n) : n \in 1..Len(Backends) }
    \cup { << "mineru", "docling" >> }

\* the Retry Policies of the chain's Parser Clients
OrchPolicies ==
  { p \in Policies : /\ p.max_attempts = DefaultMaxAttempts
                     /\ p.total_deadline < DefaultTotalDeadline
                     /\ p.backoff_multiplier = DefaultMultiplier }

\* a corrupted character (a control character or an encoding artifact)
Corrupted == "corrupted"

CorruptedChars == { Corrupted }

\* the content of the candidate documents an Adapter may produce
AdapterOutputs ==
  { LineText1,
    << Corrupted >> \o LineText1 \o << Corrupted >>,
    << Corrupted, Corrupted >>,
    <<>> }

RECURSIVE Sanitize(_)
\* Sanitization: strip corrupted chars
Sanitize(content) ==
  IF content = <<>> THEN <<>>
  ELSE IF Head(content) \in CorruptedChars THEN Sanitize(Tail(content))
  ELSE << Head(content) >> \o Sanitize(Tail(content))

\* the candidate passes the IR schema as it is
ValidIR(content) ==
  /\ content # <<>>
  /\ \A i \in 1..Len(content) : content[i] \notin CorruptedChars

\* Validation, Sanitization, Partial Success
Validate(content) ==
  IF ValidIR(content)
  THEN [ kind |-> "StandardizedDocument", content |-> content ]
  ELSE IF Sanitize(content) # <<>>
  THEN [ kind |-> "PartialResult", content |-> Sanitize(content) ]
  ELSE [ kind |-> "InvalidIR", content |-> Sanitize(content) ]

\* the underlying error recorded for a candidate that failed
ChainError(backend, error) == [ backend |-> backend, error |-> error ]

\* a fallback loop that gives up at the first failed candidate
HasFallbackNever(ch, i) == FALSE

\* a fallback loop that looks for one candidate more than the chain has
HasFallbackPastEnd(ch, i) == i <= Len(ch)

\* a candidate remains in the chain after candidate i
HasFallback(ch, i) == i < Len(ch)

\* the process call as the caller makes it
OrchStart ==
  /\ chain \in Chains
  /\ candidate = 0
  /\ invocations = <<>>
  /\ chain_errors = <<>>
  /\ ir_content = None
  /\ warnings = <<>>
  /\ result = "none"
  /\ orch_pc = "next"

OrchIdle ==
  /\ chain = <<>> /\ candidate = 0 /\ invocations = <<>> /\ chain_errors = <<>>
  /\ ir_content = None /\ warnings = <<>> /\ result = "none"
  /\ orch_pc = "idle"

\* the Parser Client of the next candidate is invoked, with a fresh budget
InvokeCandidate ==
  /\ orch_pc = "next"
  /\ candidate < Len(chain)
  /\ candidate' = candidate + 1
  /\ invocations' = Append(invocations, chain[candidate + 1])
  /\ orch_pc' = "client"
  /\ policy' \in OrchPolicies
  /\ attempts' = 0 /\ clock' = 0 /\ starts' = <<>> /\ delays' = <<>>
  /\ latencies' = <<>> /\ errors' = <<>> /\ last_error' = "none"
  /\ outcome' = "none" /\ client_pc' = "ready"
  /\ UNCHANGED << chain, chain_errors, ir_content, warnings, result >>
  /\ UNCHANGED << chunkVars, docVars, normVars, laterVars >>

\* the candidate has failed with the error err: the loop goes on to the
\* next candidate, or the chain is exhausted
Advance(err, exhausted) ==
  /\ chain_errors' = Append(chain_errors, ChainError(chain[candidate], err))
  /\ IF HasFallback(chain, candidate)
     THEN orch_pc' = "next" /\ result' = result
     ELSE orch_pc' = "done" /\ result' = exhausted

\* the Parser Client returned its last error
CandidateFailed ==
  /\ orch_pc = "client"
  /\ client_pc = "returned" /\ outcome = "error"
  /\ Advance(last_error, "AllBackendsFailed")
  /\ UNCHANGED << chain, candidate, invocations, ir_content, warnings >>
  /\ UNCHANGED << chunkVars, docVars, clientVars, normVars, laterVars >>

\* the Parser Client returned native output: the backend's Adapter produces
\* the candidate document
Adapt ==
  /\ orch_pc = "client"
  /\ client_pc = "returned" /\ outcome = "success"
  /\ \E content \in AdapterOutputs : ir_content' = Some(content)
  /\ orch_pc' = "validate"
  /\ UNCHANGED << chain, candidate, invocations, chain_errors, warnings,
                  result >>
  /\ UNCHANGED << chunkVars, docVars, clientVars, normVars, laterVars >>

\* the candidate document is valid as it is
AcceptDocument ==
  /\ orch_pc = "validate"
  /\ Validate(ir_content[1]).kind = "StandardizedDocument"
  /\ result' = "StandardizedDocument"
  /\ orch_pc' = "done"
  /\ UNCHANGED << chain, candidate, invocations, chain_errors, ir_content,
                  warnings >>
  /\ UNCHANGED << chunkVars, docVars, clientVars, normVars, laterVars >>

\* recoverable validation failure: the candidate is sanitized in place and
\* returned with a logged warning
AcceptPartial ==
  /\ orch_pc = "validate"
  /\ Validate(ir_content[1]).kind = "PartialResult"
  /\ ir_content' = Some(Validate(ir_content[1]).content)
  /\ warnings' = Append(warnings, "sanitized")
  /\ result' = "PartialResult"
  /\ orch_pc' = "done"
  /\ UNCHANGED << chain, candidate, invocations, chain_errors >>
  /\ UNCHANGED << chunkVars, docVars, clientVars, normVars, laterVars >>

\* unrecoverable validation failure (no content after sanitation): the
\* Orchestrator falls back at once to the next candidate, and fails with
\* InvalidIR when none remains
RejectInvalidIR ==
  /\ orch_pc = "validate"
  /\ Validate(ir_content[1]).kind = "InvalidIR"
  /\ ir_content' = None
  /\ Advance("invalid_ir", "InvalidIR")
  /\ UNCHANGED << chain, candidate, invocations, warnings >>
  /\ UNCHANGED << chunkVars, docVars, clientVars, normVars, laterVars >>

OrchNext ==
  \/ InvokeCandidate
  \/ CallBackend
  \/ ReplySuccess
  \/ ReplyError
  \/ DeadlineAbort
  \/ Backoff
  \/ CandidateFailed
  \/ Adapt
  \/ AcceptDocument
  \/ AcceptPartial
  \/ RejectInvalidIR

(***************************************************************************)
(* Metadata Normalizer: read-time normalization of a persisted             *)
(* header_path, a legacy scalar string or a versioned array.               *)
(***************************************************************************)
LegacyDelimiter == "/"

Backslash == "\\"

SchemaVersion == "v1"

\* a record whose header_path is a scalar string, with no version tag
ScalarRecord(path) ==
  [ shape |-> "scalar", header_path |-> path,
    header_path_schema_version |-> "none" ]

\* what is written: header_path as an array, and the version tag
ArrayRecord(path) ==
  [ shape |-> "array", header_path |-> path,
    header_path_schema_version |-> SchemaVersion ]

RECURSIVE StripLeft(_)
StripLeft(s) ==
  IF s # <<>> /\ Head(s) = LegacyDelimiter THEN StripLeft(Tail(s)) ELSE s

RECURSIVE StripRight(_)
StripRight(s) ==
  IF s # <<>> /\ s[Len(s)] = LegacyDelimiter
  THEN StripRight(SubSeq(s, 1, Len(s) - 1))
  ELSE s

\* s.strip("/")
Strip(s) == StripRight(StripLeft(s))

RECURSIVE SplitFrom(_, _)
SplitFrom(s, segment) ==
  IF s = <<>> THEN << segment >>
  ELSE IF Head(s) = LegacyDelimiter
  THEN << segment >> \o SplitFrom(Tail(s), <<>>)
  ELSE SplitFrom(Tail(s), Append(segment, Head(s)))

\* s.split("/")
Split(s) == SplitFrom(s, <<>>)

RECURSIVE Join(_)
\* the legacy scalar of a path: "/" before every segment
Join(path) ==
  IF path = <<>> THEN <<>>
  ELSE << LegacyDelimiter >> \o Head(path) \o Join(Tail(path))

IsVersionedArray(raw) ==
  raw.shape = "array" /\ raw.header_path_schema_version = SchemaVersion

\* a normalization that reads an array as its legacy scalar and splits it
\* again
NormalizeResplit(raw) ==
  IF raw.shape = "array"
  THEN ArrayRecord(Split(Join(raw.header_path)))
  ELSE ArrayRecord(Split(Strip(raw.header_path)))

\* normalize(rawValue)
Normalize(raw) ==
  IF IsVersionedArray(raw) THEN raw
  ELSE ArrayRecord(Split(Strip(raw.header_path)))

PathChars == { LegacyDelimiter, Backslash, "A", "B" }

Segments == { << "A" >>, << "A", LegacyDelimiter, "B" >>, <<>> }

\* the persisted values a read may meet: legacy scalars
LegacyValues ==
  { ScalarRecord(path) : path \in SeqsUpTo(PathChars, MaxPathLen) }

\* the persisted values a read may meet: versioned arrays
ArrayValues ==
  { ArrayRecord(path) : path \in SeqsUpTo(Segments, MaxSegments) }

NormStart ==
  /\ \/ rawValue \in { Some(raw) : raw \in LegacyValues }
     \/ rawValue \in { Some(raw) : raw \in ArrayValues }
  /\ normalized = None
  /\ renormalized = None
  /\ norm_pc = "read"

NormIdle ==
  /\ rawValue = None /\ normalized = None /\ renormalized = None
  /\ norm_pc = "idle"

\* a read normalizes the persisted value
NormalizeRead ==
  /\ norm_pc = "read"
  /\ normalized' = Some(Normalize(rawValue[1]))
  /\ norm_pc' = "normalized"
  /\ UNCHANGED << rawValue, renormalized >>
  /\ UNCHANGED << chunkVars, docVars, clientVars, orchVars, laterVars >>

\* the normalized value is normalized again
NormalizeAgain ==
  /\ norm_pc = "normalized"
  /\ renormalized' = Some(Normalize(normalized[1]))
  /\ norm_pc' = "done"
  /\ UNCHANGED << rawValue, normalized >>
  /\ UNCHANGED << chunkVars, docVars, clientVars, orchVars, laterVars >>

NormNext == NormalizeRead \/ NormalizeAgain

(***************************************************************************)
(* Migration job and live traffic on the document table.  A batch is one   *)
(* transaction; live writes and reads go on beside it.                     *)
(***************************************************************************)
BatchSize == 1000

\* the records followed one by one
RecordIds == { 1, 2 }

InitialValues == 1..4

\* what a followed record holds when the migration starts
InitialValue(i) ==
  CASE i = 1 -> ScalarRecord(<< LegacyDelimiter, "A", LegacyDelimiter, "B" >>)
    [] i = 2 -> ScalarRecord(<< "A", Backslash, LegacyDelimiter, "B" >>)
    [] i = 3 -> ScalarRecord(<< "A", LegacyDelimiter, LegacyDelimiter, "B" >>)
    [] i = 4 -> ArrayRecord(<< << "A" >> >>)

\* the numbers of further records in legacy shape
Backlogs == { 0, 1, BatchSize, BatchSize + 1, 2 * BatchSize + 1 }

\* the header paths live traffic writes
LivePaths == { << << "B" >> >>, << << "A" >>, << "B", LegacyDelimiter >> >> }

\* a write that stores the path as a legacy scalar
WriteValueLegacy(path) == ScalarRecord(Join(path))

\* Write: always a JSON array, with the version tag
WriteValue(path) == ArrayRecord(path)

\* a rewrite that splits the scalar without trimming it
MigratedUntrimmed(raw) == ArrayRecord(Split(raw.header_path))

\* the migration's rewrite of a record: array format, version added
Migrated(raw) == Normalize(raw)

\* a migration with no limit on its transaction
BatchLimitAll(remaining) == remaining

\* the number of records of one migration transaction
BatchLimit(remaining) == Min(BatchSize, remaining)

\* the value a live read returns for a stored record
ReadPath(raw) == Normalize(raw).header_path

\* a write-back of what the job read, whatever the record holds by now
WriteBackStale(r) == Migrated(batch_read[r])

\* the job's update of record r of its batch: a header_path that is still
\* scalar becomes the array of the value read, with the version
WriteBack(r) ==
  IF IsVersionedArray(table[r]) THEN table[r] ELSE Migrated(batch_read[r])

\* a job that takes every record, tagged or not
UntaggedOrNot == RecordIds

\* the followed records that lack the version tag
Untagged == { r \in RecordIds : ~IsVersionedArray(table[r]) }

MigStart ==
  /\ \E f \in [ RecordIds -> InitialValues ] :
       table = [ r \in RecordIds |-> InitialValue(f[r]) ]
  /\ backlog \in Backlogs
  /\ batch = {}
  /\ batch_rest = 0
  /\ batch_read = <<>>
  /\ last_read = None
  /\ mig_pc = "scan"

MigIdle ==
  /\ table = <<>> /\ backlog = 0 /\ batch = {} /\ batch_rest = 0
  /\ batch_read = <<>> /\ last_read = None /\ mig_pc = "idle"

\* the job selects its next batch of records lacking the version tag
BeginBatch ==
  /\ mig_pc = "scan"
  /\ Cardinality(Untagged) + backlog > 0
  /\ \E S \in SUBSET Untagged :
       LET n == BatchLimit(Cardinality(Untagged) + backlog) - Cardinality(S)
       IN  /\ n >= 0 /\ n <= backlog
           /\ batch' = S
           /\ batch_rest' = n
           /\ batch_read' = [ r \in S |-> table[r] ]
  /\ mig_pc' = "txn"
  /\ UNCHANGED << table, backlog, last_read >>
  /\ UNCHANGED << chunkVars, docVars, clientVars, orchVars, normVars,
                  splitVars, pipeVars,
                  restVars >>

\* the transaction updates the scalar records of the batch and commits
CommitBatch ==
  /\ mig_pc = "txn"
  /\ table' = [ r \in RecordIds |->
                  IF r \in batch THEN WriteBack(r) ELSE table[r] ]
  /\ backlog' = backlog - batch_rest
  /\ batch' = {}
  /\ batch_rest' = 0
  /\ batch_read' = <<>>
  /\ mig_pc' = "scan"
  /\ UNCHANGED last_read
  /\ UNCHANGED << chunkVars, docVars, clientVars, orchVars, normVars,
                  splitVars, pipeVars,
                  restVars >>

\* no record lacks the version tag: the job ends
FinishMigration ==
  /\ mig_pc = "scan"
  /\ Cardinality(Untagged) + backlog = 0
  /\ mig_pc' = "finished"
  /\ UNCHANGED << table, backlog, batch, batch_rest, batch_read, last_read >>
  /\ UNCHANGED << chunkVars, docVars, clientVars, orchVars, normVars,
                  splitVars, pipeVars,
                  restVars >>

\* the job is started again after it has ended
RerunMigration ==
  /\ mig_pc = "finished"
  /\ mig_pc' = "scan"
  /\ UNCHANGED << table, backlog, batch, batch_rest, batch_read, last_read >>
  /\ UNCHANGED << chunkVars, docVars, clientVars, orchVars, normVars,
                  splitVars, pipeVars, restVars >>

\* live traffic writes the header_path of a record
LiveWrite ==
  /\ mig_pc # "idle"
  /\ \E r \in RecordIds, path \in LivePaths :
       table' = [ table EXCEPT ![r] = WriteValue(path) ]
  /\ UNCHANGED << backlog, batch, batch_rest, batch_read, last_read, mig_pc >>
  /\ UNCHANGED << chunkVars, docVars, clientVars, orchVars, normVars,
                  splitVars, pipeVars,
                  restVars >>

\* the live read of record r (read-time normalization)
LiveReadOf(r) ==
  /\ mig_pc # "idle"
  /\ last_read' = Some([ id |-> r, path |-> ReadPath(table[r]) ])
  /\ UNCHANGED << table, backlog, batch, batch_rest, batch_read, mig_pc >>
  /\ UNCHANGED << chunkVars, docVars, clientVars, orchVars, normVars,
                  splitVars, pipeVars,
                  restVars >>

LiveRead == \E r \in RecordIds : LiveReadOf(r)

\* the steps of the background task
MigrationJob == BeginBatch \/ CommitBatch \/ FinishMigration

MigNext ==
  \/ BeginBatch
  \/ CommitBatch
  \/ FinishMigration
  \/ RerunMigration
  \/ LiveWrite
  \/ LiveRead

(***************************************************************************)
(* Secondary pass: a section emitted by the scan that exceeds              *)
(* chunk_token_num is split into sub-chunks of whole lines, consecutive    *)
(* sub-chunks sharing overlapped_percent of their lines.                   *)
(***************************************************************************)
SplitLines == { LineH1A, LineH2B, LineText1, LineText2 }

ChunkTokenNums == { 4, 5, 8 }

OverlappedPercents == { 0, 50 }

RECURSIVE TextLinesFrom(_, _)
TextLinesFrom(text, line) ==
  IF text = <<>> THEN (IF line = <<>> THEN <<>> ELSE << line >>)
  ELSE IF Head(text) = NL THEN << line >> \o TextLinesFrom(Tail(text), <<>>)
  ELSE TextLinesFrom(Tail(text), Append(line, Head(text)))

\* the lines of a section's text
TextLines(text) == TextLinesFrom(text, <<>>)

RECURSIVE TokenCount(_)
\* the tokens of a run of lines (one token a character)
TokenCount(ls) == IF ls = <<>> THEN 0 ELSE Len(Head(ls)) + TokenCount(Tail(ls))

\* the lines the next sub-chunk takes: as many as fit, and at least one
TakeCount(ls, limit) ==
  LET fitting == { k \in 1..Len(ls) : TokenCount(SubSeq(ls, 1, k)) <= limit }
  IN  IF fitting = {} THEN 1
      ELSE CHOOSE k \in fitting : \A j \in fitting : j <= k

\* the lines of a sub-chunk repeated at the head of the next one
OverlapCount(taken, percent) == (taken * percent) \div 100

RECURSIVE Pieces(_, _, _)
\* the runs of lines a section is split into
Pieces(ls, limit, percent) ==
  IF TokenCount(ls) <= limit THEN << ls >>
  ELSE LET k == TakeCount(ls, limit)
       IN  IF k = Len(ls) THEN << ls >>
           ELSE << SubSeq(ls, 1, k) >>
                  \o Pieces(SubSeq(ls, k + 1 - OverlapCount(k, percent), Len(ls)),
                            limit, percent)

RECURSIVE PieceText(_)
\* the text of a run of lines, every line followed by a newline
PieceText(ls) == IF ls = <<>> THEN <<>> ELSE Head(ls) \o << NL >> \o PieceText(Tail(ls))

\* a sub-chunk that lost its section's header path
SubChunkPathless(section, index, piece) ==
  [ text |-> PieceText(piece), header_path |-> <<>>, section |-> index ]

\* a sub-chunk of the section with the given index
SubChunk(section, index, piece) ==
  [ text |-> PieceText(piece), header_path |-> section.header_path,
    section |-> index ]

\* the sub-chunks of one section
SplitSection(section, index, limit, percent) ==
  LET pieces == Pieces(TextLines(section.text), limit, percent)
  IN  [ i \in 1..Len(pieces) |-> SubChunk(section, index, pieces[i]) ]

\* the index of the section the pass takes next
SplitPos == IF sub_chunks = <<>> THEN 1 ELSE sub_chunks[Len(sub_chunks)].section + 1

SplitStart ==
  /\ sections \in { ChunkLines(ls) : ls \in SeqsUpTo(SplitLines, MaxSplitLines) }
  /\ chunk_token_num \in ChunkTokenNums
  /\ overlapped_percent \in OverlappedPercents
  /\ sub_chunks = <<>>
  /\ split_pc = "split"

SplitIdle ==
  /\ sections = <<>> /\ chunk_token_num = 0 /\ overlapped_percent = 0
  /\ sub_chunks = <<>> /\ split_pc = "idle"

\* the pass splits the next section
SplitOne ==
  /\ split_pc = "split"
  /\ SplitPos <= Len(sections)
  /\ sub_chunks' = sub_chunks \o SplitSection(sections[SplitPos], SplitPos,
                                              chunk_token_num, overlapped_percent)
  /\ UNCHANGED << sections, chunk_token_num, overlapped_percent, split_pc >>
  /\ UNCHANGED << chunkVars, docVars, clientVars, orchVars, normVars,
                  migVars, pipeVars,
                  restVars >>

\* every section has been taken
SplitDone ==
  /\ split_pc = "split"
  /\ SplitPos > Len(sections)
  /\ split_pc' = "done"
  /\ UNCHANGED << sections, chunk_token_num, overlapped_percent, sub_chunks >>
  /\ UNCHANGED << chunkVars, docVars, clientVars, orchVars, normVars,
                  migVars, pipeVars,
                  restVars >>

SplitNext == SplitOne \/ SplitDone

(***************************************************************************)
(* Document pipelines: several process calls run side by side, each with   *)
(* the configuration snapshot, the correlation identifier and the retry    *)
(* budget of its own call; the feature flag is refreshed from outside.     *)
(***************************************************************************)
Docs == { 1, 2 }

Flags == { "flat", "semantic" }

\* retry budgets of a call: attempts and deadline
PipeBudgets == { [ max_attempts |-> 1, total_deadline |-> 1 ],
                 [ max_attempts |-> 2, total_deadline |-> 1 ],
                 [ max_attempts |-> 2, total_deadline |-> 2 ] }

\* time one parser attempt takes
PipeLatencies == { 0, 1 }

\* a document whose process call has not started
NewDoc ==
  [ pc |-> "new", snapshot |-> "none", cid |-> None,
    max_attempts |-> 0, total_deadline |-> 0, attempts |-> 0, elapsed |-> 0,
    elements |-> FALSE, strategy |-> "none" ]

\* the correlation identifier the caller supplies with document d
CallerId(d) == [ origin |-> "caller", n |-> d ]

\* the n-th correlation identifier generated
GeneratedId(n) == [ origin |-> "generated", n |-> n ]

\* a record stamped with the identifier generated last, whatever its call
RecordIdLatest(d) == GeneratedId(generated)

\* the correlation identifier of the records of document d
RecordId(d) == docs[d].cid[1]

\* a log or error record of document d
LogRecord(d, event) == [ doc |-> d, cid |-> RecordId(d), event |-> event ]

\* a route that reads the flag as it is when the document is routed
RoutingFlagAmbient(d) == flag

\* the flag the routing of document d goes by: the snapshot of its call
RoutingFlag(d) == docs[d].snapshot

\* the chunking strategy of document d
Strategy(d) ==
  IF docs[d].elements \/ RoutingFlag(d) = "semantic" THEN "semantic" ELSE "flat"

RECURSIVE AttemptsOf(_)
\* the attempts of all the documents of S together
AttemptsOf(S) ==
  IF S = {} THEN 0
  ELSE LET d == CHOOSE x \in S : TRUE
       IN  docs[d].attempts + AttemptsOf(S \ { d })

\* a budget that counts the attempts of every document
AttemptsUsedShared(d) == AttemptsOf(Docs)

\* the attempts that count against the budget of document d
AttemptsUsed(d) == docs[d].attempts

\* the budget of document d allows no further attempt
BudgetSpent(d, used, waited) ==
  used >= docs[d].max_attempts \/ waited >= docs[d].total_deadline

PipeStart ==
  /\ flag \in Flags
  /\ docs = [ d \in Docs |-> NewDoc ]
  /\ log = {}
  /\ generated = 0

PipeIdle == flag = "idle" /\ docs = <<>> /\ log = {} /\ generated = 0

\* the external refresher changes the feature flag
RefreshFlag ==
  /\ flag \in Flags
  /\ flag' \in Flags \ { flag }
  /\ UNCHANGED << docs, log, generated >>
  /\ UNCHANGED << chunkVars, docVars, clientVars, orchVars, normVars,
                  migVars, splitVars,
                  restVars >>

\* process(document) starts: snapshot, identifier and budget of the call
StartCall(d, supplied, budget) ==
  /\ flag \in Flags
  /\ docs[d].pc = "new"
  /\ LET id == IF supplied THEN CallerId(d) ELSE GeneratedId(generated + 1)
     IN  /\ docs' = [ docs EXCEPT ![d] =
                        [ @ EXCEPT !.pc = "parsing", !.snapshot = flag,
                                   !.cid = Some(id),
                                   !.max_attempts = budget.max_attempts,
                                   !.total_deadline = budget.total_deadline ] ]
         /\ log' = log \cup { [ doc |-> d, cid |-> id, event |-> "start" ] }
  /\ generated' = IF supplied THEN generated ELSE generated + 1
  /\ flag' = flag
  /\ UNCHANGED << chunkVars, docVars, clientVars, orchVars, normVars,
                  migVars, splitVars,
                  restVars >>

\* one Parser Client attempt of document d succeeds: the IR is adapted
AttemptSucceeds(d, latency, elements) ==
  /\ docs[d].pc = "parsing"
  /\ ~BudgetSpent(d, AttemptsUsed(d), docs[d].elapsed)
  /\ docs' = [ docs EXCEPT ![d] =
                 [ @ EXCEPT !.pc = "adapted", !.attempts = @ + 1,
                            !.elapsed = @ + latency, !.elements = elements ] ]
  /\ log' = log \cup { LogRecord(d, "parsed") }
  /\ UNCHANGED << flag, generated >>
  /\ UNCHANGED << chunkVars, docVars, clientVars, orchVars, normVars,
                  migVars, splitVars,
                  restVars >>

\* one Parser Client attempt of document d fails: retry, or give up when
\* the budget of the call is spent
AttemptFails(d, latency) ==
  /\ docs[d].pc = "parsing"
  /\ ~BudgetSpent(d, AttemptsUsed(d), docs[d].elapsed)
  /\ LET spent == BudgetSpent(d, AttemptsUsed(d) + 1, docs[d].elapsed + latency)
     IN  /\ docs' = [ docs EXCEPT ![d] =
                        [ @ EXCEPT !.pc = IF spent THEN "failed" ELSE "parsing",
                                   !.attempts = @ + 1,
                                   !.elapsed = @ + latency ] ]
         /\ log' = log \cup { LogRecord(d, IF spent THEN "error" ELSE "retry") }
  /\ UNCHANGED << flag, generated >>
  /\ UNCHANGED << chunkVars, docVars, clientVars, orchVars, normVars,
                  migVars, splitVars,
                  restVars >>

\* the IR of document d is routed to its chunking strategy
Route(d) ==
  /\ docs[d].pc = "adapted"
  /\ docs' = [ docs EXCEPT ![d] =
                 [ @ EXCEPT !.pc = "done", !.strategy = Strategy(d) ] ]
  /\ log' = log \cup { LogRecord(d, "routed") }
  /\ UNCHANGED << flag, generated >>
  /\ UNCHANGED << chunkVars, docVars, clientVars, orchVars, normVars,
                  migVars, splitVars,
                  restVars >>

Start == \E d \in Docs, supplied \in BOOLEAN, budget \in PipeBudgets :
           StartCall(d, supplied, budget)

Succeed == \E d \in Docs, latency \in PipeLatencies, elements \in BOOLEAN :
             AttemptSucceeds(d, latency, elements)

Fail == \E d \in Docs, latency \in PipeLatencies : AttemptFails(d, latency)

Routing == \E d \in Docs : Route(d)

PipeNext == RefreshFlag \/ Start \/ Succeed \/ Fail \/ Routing

(***************************************************************************)
(* useDeleteFile: after removeFile answers with code 0 the hook looks up   *)
(* the total of the file-list query, takes the deleted files off it and    *)
(* moves the page back when it no longer exists.                           *)
(***************************************************************************)
\* pagination of the router when the hook is used
FilePages == { 1, 2, 3, 10 }

FilePageSizes == { 1, 10 }

\* totals of the file-list queries in the cache
FileTotals == { 0, 1, 2, 12, 100 }

\* the files one call deletes
FileIdSets == { { "1" }, { "1", "2" } }

Max(a, b) == IF a >= b THEN a ELSE b

\* Math.ceil(a / b) for a size b above zero
CeilDiv(a, b) == IF a <= 0 THEN 0 ELSE (a + b - 1) \div b

\* the total of whatever file-list query the cache holds first
QueryTotalCached == stale_total

\* the total of the active file-list query
QueryTotal == total

\* newTotal: the total without the deleted files
NewTotal(ids) == Max(0, QueryTotal - Cardinality(ids))

\* maxPage = Math.max(1, Math.ceil(newTotal / size))
MaxPage(ids) == Max(1, CeilDiv(NewTotal(ids), size))

FileStart ==
  /\ page \in FilePages
  /\ size \in FilePageSizes
  /\ total \in FileTotals
  /\ stale_total \in FileTotals
  /\ fileIds = {}
  /\ pagination_calls = <<>>
  /\ file_pc = "ready"

FileIdle ==
  /\ page = 0 /\ size = 0 /\ total = 0 /\ stale_total = 0 /\ fileIds = {}
  /\ pagination_calls = <<>> /\ file_pc = "idle"

\* deleteFile({ fileIds, parentId }): removeFile is requested
DeleteFile ==
  /\ file_pc = "ready"
  /\ \E ids \in FileIdSets :
       /\ Cardinality(ids) <= total
       /\ fileIds' = ids
  /\ file_pc' = "removing"
  /\ UNCHANGED << page, size, total, stale_total, pagination_calls >>
  /\ UNCHANGED << chunkVars, docVars, clientVars, orchVars, normVars,
                  migVars, splitVars, pipeVars, parser_attempts >>

\* removeFile answered with code 0: the page is set back when it is beyond
\* the last page, and the file list is fetched again
RemoveSucceeds ==
  /\ file_pc = "removing"
  /\ IF page > MaxPage(fileIds)
     THEN /\ pagination_calls' = Append(pagination_calls, MaxPage(fileIds))
          /\ page' = MaxPage(fileIds)
     ELSE UNCHANGED << pagination_calls, page >>
  /\ total' = Max(0, total - Cardinality(fileIds))
  /\ fileIds' = {}
  /\ file_pc' = "ready"
  /\ UNCHANGED << size, stale_total >>
  /\ UNCHANGED << chunkVars, docVars, clientVars, orchVars, normVars,
                  migVars, splitVars, pipeVars, parser_attempts >>

\* removeFile answered with another code: nothing is changed
RemoveFails ==
  /\ file_pc = "removing"
  /\ fileIds' = {}
  /\ file_pc' = "ready"
  /\ UNCHANGED << page, size, total, stale_total, pagination_calls >>
  /\ UNCHANGED << chunkVars, docVars, clientVars, orchVars, normVars,
                  migVars, splitVars, pipeVars, parser_attempts >>

FileNext == DeleteFile \/ RemoveSucceeds \/ RemoveFails

(***************************************************************************)
(* The specifications: each component runs alone, the pipelines of         *)
(* different documents sharing no state.                                   *)
(***************************************************************************)
\* the components added after the normalizer, at rest
\* the file-list page at rest, no parser attempt counted
RestIdle == FileIdle /\ parser_attempts = 0

LaterIdle == MigIdle /\ SplitIdle /\ PipeIdle /\ RestIdle

ChunkInit ==
  ChunkStart /\ DocIdle /\ ClientIdle /\ OrchIdle /\ NormIdle /\ LaterIdle

ChunkSpec == ChunkInit /\ [][ChunkNext]_vars

DocInit ==
  DocStart /\ ChunkIdle /\ ClientIdle /\ OrchIdle /\ NormIdle /\ LaterIdle

DocSpec == DocInit /\ [][DocNext]_vars

ClientInit ==
  ClientStart /\ ChunkIdle /\ DocIdle /\ OrchIdle /\ NormIdle /\ LaterIdle

ClientSpec == ClientInit /\ [][ClientNext]_vars

OrchInit ==
  OrchStart /\ ClientIdle /\ ChunkIdle /\ DocIdle /\ NormIdle /\ LaterIdle

OrchSpec == OrchInit /\ [][OrchNext]_vars

\* the call is a sequential loop: a step that can be taken is taken (a
\* backend answers, or the deadline aborts the attempt in flight)
OrchFairSpec == OrchSpec /\ WF_vars(OrchNext)

NormInit ==
  NormStart /\ ChunkIdle /\ DocIdle /\ ClientIdle /\ OrchIdle /\ LaterIdle

NormSpec == NormInit /\ [][NormNext]_vars

\* the components up to the normalizer, at rest
EarlierIdle == ChunkIdle /\ DocIdle /\ ClientIdle /\ OrchIdle /\ NormIdle

MigInit == MigStart /\ EarlierIdle /\ SplitIdle /\ PipeIdle /\ RestIdle

MigSpec == MigInit /\ [][MigNext]_vars

\* the background task is scheduled fairly: a step it can take is taken,
\* however much live traffic there is
MigFairSpec == MigSpec /\ WF_vars(MigrationJob)

SplitInit == SplitStart /\ EarlierIdle /\ MigIdle /\ PipeIdle /\ RestIdle

SplitSpec == SplitInit /\ [][SplitNext]_vars

PipeInit == PipeStart /\ EarlierIdle /\ MigIdle /\ SplitIdle /\ RestIdle

PipeSpec == PipeInit /\ [][PipeNext]_vars

FileInit ==
  /\ FileStart /\ parser_attempts = 0
  /\ EarlierIdle /\ MigIdle /\ SplitIdle /\ PipeIdle

FileSpec == FileInit /\ [][FileNext]_vars

(***************************************************************************)
(* Vocabulary of the properties of the scan, defined on the input lines    *)
(* alone (not through the scan's own state).                               *)
(***************************************************************************)
Last(s) == s[Len(s)]

\* every line followed by a newline
RECURSIVE Unlines(_)
Unlines(ls) == IF ls = <<>> THEN <<>> ELSE Head(ls) \o <<NL>> \o Unlines(Tail(ls))

RECURSIVE ConcatTexts(_)
ConcatTexts(cs) ==
  IF cs = <<>> THEN <<>> ELSE Head(cs).text \o ConcatTexts(Tail(cs))

Paths(cs) == [i \in 1..Len(cs) |-> cs[i].header_path]

\* the first line of a section buffer, without its newline
RECURSIVE FirstLine(_)
FirstLine(s) ==
  IF s = <<>> \/ Head(s) = NL THEN <<>> ELSE <<Head(s)>> \o FirstLine(Tail(s))

FenceCount(ls, n) == Cardinality({ j \in 1..n : IsFenceLine(ls[j]) })

\* line i lies after an odd number of fence lines
InsideFence(ls, i) == FenceCount(ls, i - 1) % 2 = 1

\* line i is a header-pattern line outside every code fence
IsOpenHeader(ls, i) ==
  /\ ~IsFenceLine(ls[i]) /\ HeaderMatch(ls[i]) /\ ~InsideFence(ls, i)

OpenHeaders(ls) == { i \in 1..Len(ls) : IsOpenHeader(ls, i) }

\* the header line as level '#' characters, one space and the header text
Canonical(line) == Hashes(HeaderLevel(line)) \o <<" ">> \o HeaderText(line)

InsertAt(ls, p, l) == SubSeq(ls, 1, p) \o <<l>> \o SubSeq(ls, p + 1, Len(ls))

HeaderLines == { l \in Lines : HeaderMatch(l) }

Done == pc = "done"

(***************************************************************************)
(* C2: in every state of the scan the levels of the header stack, read     *)
(* root to top, are strictly increasing.                                   *)
(***************************************************************************)
C2_StackStrictlyIncreasing ==
  \A i \in 1..(Len(header_stack) - 1) :
    header_stack[i][1] < header_stack[i + 1][1]

\* a deeper section has been closed by a header of level 2 under an open
\* level 1, leaving the stack <<(1,A), (2,B)>>
C2_Witness ==
  /\ Done
  /\ lines = << LineH1A, LineH2B, LineH3Tab, LineH2B >>
  /\ header_stack = << <<1, <<"A">> >>, <<2, <<"B">> >> >>

(***************************************************************************)
(* C3: a chunk's header_path is the header stack's texts, root first, at   *)
(* the moment of emission: the stack before the header that triggered the  *)
(* emission is pushed, ending with the header that opened the chunk's own  *)
(* section; and the scenario "# A\ntext1\n## B\ntext2\n# C\ntext3" yields  *)
(* three chunks with paths [A], [A,B], [C], each starting with its header. *)
(***************************************************************************)
ScenarioChunks ==
  << [ text |-> LineH1A \o <<NL>> \o LineText1 \o <<NL>>,
       header_path |-> << <<"A">> >> ],
     [ text |-> LineH2B \o <<NL>> \o LineText2 \o <<NL>>,
       header_path |-> << <<"A">>, <<"B">> >> ],
     [ text |-> LineH1C \o <<NL>> \o LineText3 \o <<NL>>,
       header_path |-> << <<"C">> >> ] >>

C3_EmissionStep ==
  chunks' # chunks =>
    /\ Len(chunks') = Len(chunks) + 1
    /\ SubSeq(chunks', 1, Len(chunks)) = chunks
    /\ Last(chunks').header_path = StackTexts(header_stack)
    /\ HeaderMatch(FirstLine(Last(chunks').text)) =>
         /\ Last(chunks').header_path # <<>>
         /\ Last(Last(chunks').header_path)
              = HeaderText(FirstLine(Last(chunks').text))
    /\ pc' = "scan" =>
         /\ Last(header_stack') = <<HeaderLevel(lines[pos]), HeaderText(lines[pos])>>
         /\ Len(header_stack') - 1 <= Len(header_stack)
         /\ SubSeq(header_stack', 1, Len(header_stack') - 1)
              = SubSeq(header_stack, 1, Len(header_stack') - 1)

C3_HeaderPathIsStackAtEmission ==
  /\ [][C3_EmissionStep]_vars
  /\ [](Done /\ lines = ScenarioLines => chunks = ScenarioChunks)

C3_Witness == Done /\ lines = ScenarioLines /\ Len(chunks) = 3

(***************************************************************************)
(* C4: a header-pattern line inside a code fence emits no chunk and leaves *)
(* the header stack alone, and inserting a header-pattern line at any      *)
(* point inside a fenced block leaves the sequence of emitted header paths *)
(* unchanged.                                                              *)
(***************************************************************************)
C4_FencedHeaderStep ==
  (pc = "scan" /\ pos <= Len(lines) /\ InsideFence(lines, pos)
     /\ HeaderMatch(lines[pos]))
    => (chunks' = chunks /\ header_stack' = header_stack)

C4_InsertionInvisible ==
  Done =>
    \A p \in 1..Len(lines) : \A h \in HeaderLines :
      InsideFence(lines, p + 1) =>
        Paths(ChunkLines(InsertAt(lines, p, h))) = Paths(chunks)

C4_FencedHeadersNotParsed ==
  /\ [][C4_FencedHeaderStep]_vars
  /\ []C4_InsertionInvisible

\* a header-pattern line between an opening and a closing fence, followed
\* by a real header: one path for the fenced section, one for the header
C4_Witness ==
  /\ Done
  /\ lines = << LineFence, LineH1A, LineFence, LineH2B >>
  /\ Paths(chunks) = << <<>>, << <<"B">> >> >>

(***************************************************************************)
(* C5: for inputs made of header lines of levels 1..6 and body lines,      *)
(* without code fences, the chunk texts concatenated in emission order     *)
(* are the input                                                           *)
(*   - without the blank lines before the first header when nothing but    *)
(*     blank lines precedes it (all lines, for a blank input), and         *)
(*   - with every header line written as its '#' characters, one space     *)
(*     and its text.                                                       *)
(* C5_Original is the statement without these two exceptions.              *)
(***************************************************************************)
WellFormed(ls) ==
  \A i \in 1..Len(ls) :
    /\ ~IsFenceLine(ls[i])
    /\ HeaderMatch(ls[i]) => HeaderLevel(ls[i]) \in 1..6

FirstHeader(ls) ==
  IF OpenHeaders(ls) = {} THEN Len(ls) + 1
  ELSE CHOOSE i \in OpenHeaders(ls) : \A j \in OpenHeaders(ls) : i <= j

BlankPreamble(ls) == \A j \in 1..(FirstHeader(ls) - 1) : IsBlank(ls[j])

Rewritten(ls) ==
  [i \in 1..Len(ls) |-> IF IsOpenHeader(ls, i) THEN Canonical(ls[i]) ELSE ls[i]]

Reconstructed(ls) ==
  IF BlankPreamble(ls)
  THEN SubSeq(Rewritten(ls), FirstHeader(ls), Len(ls))
  ELSE Rewritten(ls)

C5_Original ==
  Done /\ WellFormed(lines) => ConcatTexts(chunks) = Unlines(lines)

C5_ConcatenationReconstructs ==
  Done /\ WellFormed(lines) =>
    ConcatTexts(chunks) = Unlines(Reconstructed(lines))

C5_Witness ==
  /\ Done
  /\ lines = << LineText1, LineH1A, LineText1, LineH2B >>
  /\ Len(chunks) = 3
  /\ ConcatTexts(chunks) = Unlines(lines)

(***************************************************************************)
(* C6: every header outside a code fence has a chunk of its own, and a     *)
(* header followed at once by another header, or ending the input, has a   *)
(* chunk whose text is only the header line, written as its '#'            *)
(* characters, one space and its text.  C6_Original says the text is the   *)
(* input line itself.                                                      *)
(***************************************************************************)
PreambleChunks(ls) == IF BlankPreamble(ls) THEN 0 ELSE 1

\* the place among the chunks of the section opened by header line i
ChunkOf(ls, i) ==
  Cardinality({ j \in OpenHeaders(ls) : j <= i }) + PreambleChunks(ls)

EmptyBody(ls, i) == i = Len(ls) \/ IsOpenHeader(ls, i + 1)

OneChunkPerHeader ==
  Len(chunks) = Cardinality(OpenHeaders(lines)) + PreambleChunks(lines)

WholeAsOneChunk(ls) == << [ text |-> Unlines(ls), header_path |-> <<>> ] >>

C7_Original ==
  Done /\ OpenHeaders(lines) = {} => chunks = WholeAsOneChunk(lines)

C7_NoHeadersOneSection ==
  /\ ~Done => ENABLED ChunkNext
  /\ Done /\ OpenHeaders(lines) = {} =>
       chunks = IF IsBlank(Unlines(lines)) THEN <<>> ELSE WholeAsOneChunk(lines)

C7_Witness ==
  /\ Done
  /\ lines = << LineText1, LineFence, LineH1A, LineNoSpace >>
  /\ chunks = WholeAsOneChunk(lines)

(***************************************************************************)
(* C1: cache invalidation law.  A read of elements that follows an         *)
(* assignment content := c, with no populate_elements between the two,     *)
(* returns the elements derived from c, whatever was read, assigned or     *)
(* pre-seeded before.                                                      *)
(***************************************************************************)
SetsBefore(i) == { j \in 1..(i - 1) : calls[j].op = "set_content" }

LastSetBefore(i) == CHOOSE j \in SetsBefore(i) : \A k \in SetsBefore(i) : k <= j

C1_CacheInvalidation ==
  \A i \in 1..Len(calls) :
    (/\ calls[i].op = "elements"
     /\ SetsBefore(i) # {}
     /\ \A k \in (LastSetBefore(i) + 1)..(i - 1) :
          calls[k].op # "populate_elements")
      => calls[i].ret = ParseElements(calls[LastSetBefore(i)].arg)

\* read, pre-seed, assign another content, read again: the second read
\* returns neither the first read's elements nor the pre-seeded list
C1_Witness ==
  /\ Len(calls) = 4
  /\ calls[1].op = "elements"
  /\ calls[2].op = "populate_elements"
  /\ calls[3].op = "set_content"
  /\ calls[4].op = "elements"
  /\ calls[4].ret = ParseElements(calls[3].arg)
  /\ calls[4].ret # calls[1].ret
  /\ calls[4].ret # calls[2].arg

(***************************************************************************)
(* C8: the attempts of one invocation never exceed the policy's            *)
(* max_attempts; with max_attempts = 3 there is no fourth attempt.         *)
(***************************************************************************)
C8_AttemptsBounded ==
  /\ Len(starts) = attempts
  /\ attempts <= policy.max_attempts
  /\ policy.max_attempts = 3 => attempts < 4

\* three attempts under the default policy, each failed with a retryable
\* error, and the invocation has returned
C8_Witness ==
  /\ policy = DefaultPolicy
  /\ attempts = 3
  /\ client_pc = "returned"
  /\ outcome = "error"
  /\ last_error \in RetryableKinds

(***************************************************************************)
(* C9: the delay after failed attempt a (0-based) is                       *)
(* min(initial_delay * backoff_multiplier^a, max_delay); delays never      *)
(* decrease and never exceed max_delay; every attempt starts when the      *)
(* attempts and delays before it have passed, so that under the default    *)
(* policy attempts that fail at once start at t = 0, 1 and 3.              *)
(***************************************************************************)
RECURSIVE Sum(_)
Sum(s) == IF s = <<>> THEN 0 ELSE Head(s) + Sum(Tail(s))

DefaultStarts == << 0, 1, 3 >>

C9_BackoffDelays ==
  /\ \A a \in 1..Len(delays) :
       /\ delays[a] = Min(policy.initial_delay
                            * Pow(policy.backoff_multiplier, a - 1),
                          policy.max_delay)
       /\ delays[a] <= policy.max_delay
       /\ a > 1 => delays[a - 1] <= delays[a]
  /\ \A k \in 1..Len(starts) :
       starts[k] = Sum(SubSeq(delays, 1, k - 1)) + Sum(SubSeq(latencies, 1, k - 1))
  /\ (policy = DefaultPolicy /\ \A k \in 1..Len(latencies) : latencies[k] = 0)
       => \A k \in 1..Len(starts) : starts[k] = DefaultStarts[k]

C9_Witness ==
  /\ policy = DefaultPolicy
  /\ starts = DefaultStarts
  /\ delays = << 1, 2 >>

(***************************************************************************)
(* C10: an attempt that fails with a non-retryable error is the last       *)
(* attempt of the invocation: the error surfaces at once, with no backoff  *)
(* delay after it, even when attempts and deadline remain.                 *)
(***************************************************************************)
C10_NonRetryableSurfaces ==
  last_error \in NonRetryableKinds =>
    /\ client_pc = "returned"
    /\ outcome = "error"
    /\ Len(delays) = attempts - 1
    /\ clock = Last(starts) + Last(latencies)
    /\ ~ENABLED ClientNext

C10_Witness ==
  /\ last_error = "malformed_input"
  /\ attempts = 2
  /\ attempts < policy.max_attempts
  /\ ~DeadlineElapsed(policy, clock + BackoffDelay(policy, attempts - 1))
  /\ client_pc = "returned"

(***************************************************************************)
(* C11: when an invocation ends in failure (max_attempts reached,          *)
(* total_deadline elapsed, or a non-retryable error), the error returned   *)
(* to the caller is the error of the last attempt made, every attempt      *)
(* having failed, and no further attempt is made.                          *)
(***************************************************************************)
C11_LastErrorSurfaced ==
  (client_pc = "returned" /\ outcome = "error") =>
    /\ Len(errors) = attempts
    /\ attempts >= 1
    /\ last_error = errors[attempts]
    /\ ~ENABLED ClientNext

\* three attempts failed with three different errors: the third is returned
C11_Witness ==
  /\ client_pc = "returned"
  /\ outcome = "error"
  /\ attempts = policy.max_attempts
  /\ errors = << "timeout", "rate_limited", "server_error" >>
  /\ last_error = "server_error"

(***************************************************************************)
(* C12: no attempt starts once total_deadline has elapsed since the        *)
(* invocation began; an attempt in flight when total_deadline expires is   *)
(* aborted and is that candidate's failure (a timeout), and the            *)
(* Orchestrator's next step records it and goes on to the next candidate   *)
(* of the chain, which it can then invoke.                                 *)
(***************************************************************************)
Aborted ==
  /\ orch_pc = "client"
  /\ client_pc = "returned"
  /\ clock = policy.total_deadline

C12_DeadlineState ==
  /\ \A k \in 1..Len(starts) : starts[k] < policy.total_deadline
  /\ clock <= policy.total_deadline
  /\ Aborted => /\ outcome = "error" /\ last_error = "timeout"
                /\ ENABLED CandidateFailed
                /\ ~ENABLED ClientNext
  /\ orch_pc = "next" => ENABLED InvokeCandidate

C12_AbortStep ==
  Aborted =>
    /\ chain_errors' = Append(chain_errors, ChainError(chain[candidate], "timeout"))
    /\ IF candidate < Len(chain)
       THEN orch_pc' = "next" /\ result' = "none"
       ELSE orch_pc' = "done" /\ result' = "AllBackendsFailed"

C12_DeadlineAbortAdvances == []C12_DeadlineState /\ [][C12_AbortStep]_vars

\* the first candidate's attempt was aborted at the deadline and recorded as
\* its failure, and the second candidate is about to be invoked
C12_Witness ==
  /\ candidate = 1
  /\ Len(chain) > 1
  /\ client_pc = "returned"
  /\ clock = policy.total_deadline
  /\ Len(latencies) = attempts
  /\ chain_errors = << ChainError(chain[1], "timeout") >>
  /\ orch_pc = "next"
  /\ ENABLED InvokeCandidate

(***************************************************************************)
(* C13: the candidates are invoked in the configured order, one at a time  *)
(* and each at most once; candidate i+1 is invoked only after the Parser   *)
(* Client of candidate i has definitively failed (a non-retryable error or *)
(* retry exhaustion), and no candidate is invoked after one has succeeded. *)
(***************************************************************************)
C13_InOrder ==
  /\ invocations = SubSeq(chain, 1, candidate)
  /\ \A i, j \in 1..Len(invocations) :
       invocations[i] = invocations[j] => i = j
  /\ orch_pc = "next" => client_pc \in { "idle", "returned" }

C13_InvokeStep ==
  invocations' # invocations =>
    /\ invocations' = Append(invocations, chain[candidate + 1])
    /\ candidate >= 1 =>
         /\ client_pc = "returned" /\ outcome = "error"
         /\ last_error \in NonRetryableKinds
              \/ AttemptsExhausted(policy, attempts)
              \/ DeadlineElapsed(policy, clock + BackoffDelay(policy, attempts - 1))

C13_SequentialInvocation == []C13_InOrder /\ [][C13_InvokeStep]_vars

(***************************************************************************)
(* C14: process fails with AllBackendsFailed if and only if the Parser     *)
(* Client of every candidate of the chain failed, and the error then       *)
(* carries one underlying error per candidate, in chain order (three when  *)
(* three backends all fail).                                               *)
(***************************************************************************)
ParserFailed(k) ==
  k <= Len(chain_errors) /\ chain_errors[k].error \in ErrorKinds

Outcomes ==
  { "StandardizedDocument", "PartialResult", "AllBackendsFailed", "InvalidIR" }

C15_TransientErrorsHidden ==
  /\ orch_pc = "done" <=> result \in Outcomes
  /\ result = "none" \/ result \in Outcomes
  /\ result \in { "AllBackendsFailed", "InvalidIR" } =>
       /\ invocations = chain
       /\ Len(chain_errors) = Len(chain)
  /\ result = "AllBackendsFailed" => Last(chain_errors).error = last_error
  /\ result = "InvalidIR" => Last(chain_errors).error = "invalid_ir"
  /\ (orch_pc = "done" /\ outcome = "success" /\ ir_content # None) =>
       /\ result \in { "StandardizedDocument", "PartialResult" }
       /\ \A k \in 1..Len(warnings) : warnings[k] \notin ErrorKinds

\* the first candidate failed with a transient error, the second succeeded
\* on a retry after a transient error: process returns a document
C15_Witness ==
  /\ result = "StandardizedDocument"
  /\ candidate = 2
  /\ chain_errors = << ChainError(chain[1], "server_error") >>
  /\ errors = << "timeout" >>
  /\ attempts = 2
  /\ warnings = <<>>

(***************************************************************************)
(* C16: a candidate with a recoverable validation failure is sanitized and *)
(* returned as a PartialResult with a warning; process fails with          *)
(* InvalidIR exactly when a candidate's content is empty after sanitation; *)
(* a returned document, full or partial, has non-empty content.            *)
(***************************************************************************)
C16_ValidationOutcome ==
  /\ result = "PartialResult" =>
       /\ warnings # <<>>
       /\ ir_content # None /\ ValidIR(ir_content[1])
  /\ result = "StandardizedDocument" =>
       /\ warnings = <<>>
       /\ ir_content # None /\ ValidIR(ir_content[1])
  /\ orch_pc = "done" =>
       (result = "InvalidIR" <=>
          \E k \in 1..Len(chain_errors) : chain_errors[k].error = "invalid_ir")

(***************************************************************************)
(* C17: an unrecoverable validation failure is fatal: when the output of   *)
(* the backend that succeeded fails validation unrecoverably, process ends *)
(* with InvalidIR and no remaining candidate is invoked.                   *)
(***************************************************************************)
C17_InvalidIRFatal ==
  \A k \in 1..Len(chain_errors) :
    chain_errors[k].error = "invalid_ir" =>
      /\ result = "InvalidIR"
      /\ orch_pc = "done"
      /\ Len(invocations) = k

(***************************************************************************)
(* C18: populate_elements accepts a list only if every element has a       *)
(* recognized type and every heading a level in 1..6; any other list is    *)
(* refused with ElementValidationError, the content and the cached         *)
(* elements staying as they were before the call.                          *)
(***************************************************************************)
RecognizedTypes ==
  { "heading", "paragraph", "table", "code_block", "list", "image" }

HeadingLevels == 1..6

WellShaped(elements) ==
  \A i \in 1..Len(elements) :
    /\ elements[i].type \in RecognizedTypes
    /\ elements[i].type = "heading" => elements[i].level \in HeadingLevels

ElementValidationError == Some("ElementValidationError")

C18_PopulateStep ==
  (calls' # calls /\ Last(calls').op = "populate_elements") =>
    IF WellShaped(Last(calls').arg)
    THEN /\ Last(calls').ret = None
         /\ _elements' = Some(Last(calls').arg)
         /\ _content' = _content
    ELSE /\ Last(calls').ret = ElementValidationError
         /\ _elements' = _elements
         /\ _content' = _content

C18_PopulateValidates == [][C18_PopulateStep]_vars

(***************************************************************************)
(* C19: a read of elements that comes right after a populate_elements call *)
(* with a list that is not well shaped returns the elements derived from   *)
(* the current content: the bad list is never seen through the getter.     *)
(***************************************************************************)
C19_BadListNeverObserved ==
  \A i \in 2..Len(calls) :
    (/\ calls[i].op = "elements"
     /\ calls[i - 1].op = "populate_elements"
     /\ ~WellShaped(calls[i - 1].arg))
      => /\ calls[i].ret # calls[i - 1].arg
         /\ i = Len(calls) => calls[i].ret = ParseElements(_content)

(***************************************************************************)
(* C20: normalize is idempotent: normalizing the normalized value of a     *)
(* legacy scalar or of a versioned array gives that normalized value       *)
(* again; a value that is already an array tagged "v1" is returned as it   *)
(* is.                                                                     *)
(***************************************************************************)
C20_NormalizeIdempotent ==
  /\ norm_pc = "done" => renormalized = normalized
  /\ normalized # None =>
       /\ IsVersionedArray(normalized[1])
       /\ IsVersionedArray(rawValue[1]) => normalized = rawValue

\* the legacy scalar "/A/B" was normalized to the tagged array of A and B,
\* and that array normalized again
C20_Witness ==
  /\ norm_pc = "done"
  /\ rawValue[1].shape = "scalar"
  /\ rawValue[1].header_path = << LegacyDelimiter, "A", LegacyDelimiter, "B" >>
  /\ normalized = Some(ArrayRecord(<< << "A" >>, << "B" >> >>))
  /\ renormalized = normalized

(***************************************************************************)
(* C21: normalize of a legacy scalar trims the leading and trailing        *)
(* delimiters and returns the segments between the unescaped delimiters,   *)
(* an escaped delimiter staying in its segment as a literal delimiter      *)
(* character, the result tagged "v1"; "/A/B" gives the path of A and B.    *)
(***************************************************************************)
RECURSIVE TrimRightUnescaped(_)
\* s without its trailing delimiters, an escaped one being no delimiter
TrimRightUnescaped(s) ==
  IF /\ s # <<>>
     /\ s[Len(s)] = LegacyDelimiter
     /\ ~(Len(s) >= 2 /\ s[Len(s) - 1] = Backslash)
  THEN TrimRightUnescaped(SubSeq(s, 1, Len(s) - 1))
  ELSE s

RECURSIVE SegmentsFrom(_, _)
\* the segments of s between its unescaped delimiters
SegmentsFrom(s, segment) ==
  IF s = <<>> THEN << segment >>
  ELSE IF Len(s) >= 2 /\ s[1] = Backslash /\ s[2] = LegacyDelimiter
  THEN SegmentsFrom(SubSeq(s, 3, Len(s)), Append(segment, LegacyDelimiter))
  ELSE IF Head(s) = LegacyDelimiter
  THEN << segment >> \o SegmentsFrom(Tail(s), <<>>)
  ELSE SegmentsFrom(Tail(s), Append(segment, Head(s)))

UnescapedSegments(s) == SegmentsFrom(TrimRightUnescaped(StripLeft(s)), <<>>)

C21_LegacySegments ==
  (normalized # None /\ rawValue[1].shape = "scalar") =>
    /\ IsVersionedArray(normalized[1])
    /\ normalized[1].header_path = UnescapedSegments(rawValue[1].header_path)
    /\ rawValue[1].header_path = << LegacyDelimiter, "A", LegacyDelimiter, "B" >>
         => normalized[1].header_path = << << "A" >>, << "B" >> >>

(***************************************************************************)
(* Vocabulary of the properties of the migration.                          *)
(***************************************************************************)
\* two stored values are the same value
SameRecord(a, b) == a.shape = b.shape /\ a = b

\* the step is the commit of a migration transaction
MigrationStep == mig_pc = "txn" /\ mig_pc' = "scan"

PathAB == << << "A" >>, << "B" >> >>

PathLive == << << "A" >>, << "B", LegacyDelimiter >> >>

(***************************************************************************)
(* C22: whatever the interleaving of live writes and migration steps, a    *)
(* step that changes a stored header_path leaves it an array tagged "v1",  *)
(* no step turns an array-shaped record into the legacy scalar shape, and  *)
(* the number of legacy records never grows.                               *)
(***************************************************************************)
C22_WriteStep ==
  /\ \A r \in RecordIds :
       /\ ~SameRecord(table'[r], table[r]) => IsVersionedArray(table'[r])
       /\ table[r].shape = "array" => table'[r].shape = "array"
  /\ backlog' <= backlog

C22_ArrayOnlyWrites == [][C22_WriteStep]_vars

\* the job has ended with one record rewritten by it and one by a live write
C22_Witness ==
  /\ mig_pc = "finished"
  /\ \E r1, r2 \in RecordIds :
       /\ IsVersionedArray(table[r1]) /\ table[r1].header_path = PathAB
       /\ IsVersionedArray(table[r2]) /\ table[r2].header_path = PathLive

(***************************************************************************)
(* C23: a live read is possible in every state of the migration, and the   *)
(* commit of a migration transaction changes the path a read returns for   *)
(* no record: the read of a rewritten record returns what the read of its  *)
(* legacy scalar returned.                                                 *)
(***************************************************************************)
C23_ReadEnabled == mig_pc # "idle" => \A r \in RecordIds : ENABLED LiveReadOf(r)

C23_MigrationStep ==
  MigrationStep => \A r \in RecordIds : ReadPath(table'[r]) = ReadPath(table[r])

C23_ReadsUnaffected == []C23_ReadEnabled /\ [][C23_MigrationStep]_vars

\* a read inside a transaction returned, for a legacy record of the batch,
\* the path another record holds since its rewrite
C23_Witness ==
  /\ mig_pc = "txn"
  /\ \E r1 \in batch, r2 \in RecordIds :
       /\ ~IsVersionedArray(table[r1])
       /\ last_read = Some([ id |-> r1, path |-> PathAB ])
       /\ IsVersionedArray(table[r2]) /\ table[r2].header_path = PathAB

(***************************************************************************)
(* C24: a legacy record whose delimiters cannot be resolved (an unescaped  *)
(* delimiter directly after another one inside the trimmed path) is left   *)
(* as it is by the commit of a migration transaction.                      *)
(***************************************************************************)
AmbiguousDelimiter(raw) ==
  /\ raw.shape = "scalar"
  /\ LET s == Strip(raw.header_path)
     IN  \E i \in 1..(Len(s) - 1) :
           /\ s[i] = LegacyDelimiter /\ s[i + 1] = LegacyDelimiter
           /\ (i = 1 \/ s[i - 1] # Backslash)

C24_MigrationStep ==
  MigrationStep =>
    \A r \in RecordIds :
      AmbiguousDelimiter(table[r]) => SameRecord(table'[r], table[r])

C24_AmbiguousLeftLegacy == [][C24_MigrationStep]_vars

(***************************************************************************)
(* C25: a migration transaction holds at most BatchSize records, however   *)
(* many records lack the version tag, and its commit changes no record     *)
(* outside the transaction.                                                *)
(***************************************************************************)
C25_BatchBounded == Cardinality(batch) + batch_rest <= BatchSize

C25_MigrationStep ==
  MigrationStep =>
    /\ \A r \in RecordIds : ~SameRecord(table'[r], table[r]) => r \in batch
    /\ backlog - backlog' = batch_rest

C25_BoundedTransactions == []C25_BatchBounded /\ [][C25_MigrationStep]_vars

\* a full transaction, more records lacking the version tag than it holds
C25_Witness ==
  /\ mig_pc = "txn"
  /\ Cardinality(batch) + batch_rest = BatchSize
  /\ Cardinality(Untagged) + backlog > BatchSize
  /\ batch # {}

(***************************************************************************)
(* C26: every sub-chunk of the token-limit and overlap pass carries the    *)
(* header_path the scan gave to the section it was split from, and the     *)
(* pass leaves the sections and their paths as the scan emitted them.      *)
(***************************************************************************)
C26_SubChunkPaths ==
  \A i \in 1..Len(sub_chunks) :
    /\ sub_chunks[i].section \in 1..Len(sections)
    /\ sub_chunks[i].header_path = sections[sub_chunks[i].section].header_path

C27_StrategyOfSnapshot ==
  \A d \in Docs :
    docs[d].pc = "done" =>
      /\ docs[d].snapshot \in Flags
      /\ docs[d].strategy = "semantic"
           <=> (docs[d].elements \/ docs[d].snapshot = "semantic")
      /\ docs[d].strategy \in { "semantic", "flat" }

C27_SnapshotStep ==
  /\ \A d \in Docs : docs[d].pc # "new" => docs'[d].snapshot = docs[d].snapshot
  /\ flag' # flag => docs' = docs

C27_SnapshotRouting == []C27_StrategyOfSnapshot /\ [][C27_SnapshotStep]_vars

\* a document without elements went the flat way although the flag was
\* switched to the structure-aware strategy while it was processed
C27_Witness ==
  \E d \in Docs :
    /\ docs[d].pc = "done" /\ ~docs[d].elements
    /\ docs[d].snapshot = "flat" /\ flag = "semantic"
    /\ docs[d].strategy = "flat"

(***************************************************************************)
(* C28: every log or error record carries the correlation identifier of    *)
(* the call of its document, which is the caller's when one was supplied   *)
(* and else one generated when the call started and kept since; no two     *)
(* calls have the same identifier.                                         *)
(***************************************************************************)
C28_RecordsOfCall ==
  /\ \A rec \in log :
       /\ docs[rec.doc].cid # None
       /\ rec.cid = docs[rec.doc].cid[1]
  /\ \A d \in Docs :
       docs[d].cid # None =>
         /\ docs[d].cid[1].origin = "caller" => docs[d].cid[1] = CallerId(d)
         /\ \A e \in Docs \ { d } : docs[e].cid # docs[d].cid

C28_IdStep == \A d \in Docs : docs[d].cid # None => docs'[d].cid = docs[d].cid

C28_CorrelationIds == []C28_RecordsOfCall /\ [][C28_IdStep]_vars

\* two calls ended, one under the caller's identifier and one under a
\* generated one, each with an error or routing record of its own
C28_Witness ==
  \E d, e \in Docs :
    /\ docs[d].cid = Some(CallerId(d)) /\ docs[e].cid = Some(GeneratedId(1))
    /\ [ doc |-> d, cid |-> CallerId(d), event |-> "error" ] \in log
    /\ [ doc |-> e, cid |-> GeneratedId(1), event |-> "routed" ] \in log

(***************************************************************************)
(* C29: a step changes the state of one document at most, so the attempts, *)
(* delays and failures of a document leave the attempts, the elapsed time, *)
(* the budget and the outcome of every other document as they were; a      *)
(* document fails only when its own attempts or its own deadline are used  *)
(* up.                                                                     *)
(***************************************************************************)
C29_OwnBudget ==
  \A d \in Docs :
    /\ docs[d].attempts <= docs[d].max_attempts
    /\ docs[d].pc = "failed" =>
         \/ docs[d].attempts = docs[d].max_attempts
         \/ docs[d].elapsed >= docs[d].total_deadline
    /\ docs[d].pc = "parsing" =>
         /\ docs[d].attempts < docs[d].max_attempts
         /\ docs[d].elapsed < docs[d].total_deadline
         /\ \E latency \in PipeLatencies : ENABLED AttemptFails(d, latency)

C29_DocumentStep ==
  \A d \in Docs :
    docs'[d] # docs[d] => \A e \in Docs \ { d } : docs'[e] = docs[e]

C29_IndependentPipelines == []C29_OwnBudget /\ [][C29_DocumentStep]_vars

\* one document failed with its budget spent while the other, started
\* before that failure, went on to its last attempt and succeeded
C29_Witness ==
  \E d, e \in Docs :
    /\ docs[d].pc = "failed" /\ docs[d].attempts = 2
    /\ docs[e].pc = "done" /\ docs[e].attempts = 2 /\ docs[e].max_attempts = 2

(***************************************************************************)
(* C30: no step of the scan changes the content it reads or the document   *)
(* it was taken from, and a chunk once emitted stays as it was emitted:    *)
(* the chunks of before a step are the first chunks of after it.           *)
(***************************************************************************)
C30_ScanStep ==
  /\ lines' = lines
  /\ UNCHANGED docVars
  /\ Len(chunks') >= Len(chunks)
  /\ SubSeq(chunks', 1, Len(chunks)) = chunks

C31_Left == IF total >= Cardinality(fileIds) THEN total - Cardinality(fileIds) ELSE 0

\* the current page shows no file any more, and is not the first page
C31_PageGone == page > 1 /\ (page - 1) * size >= C31_Left

\* the step is the answer of a successful deletion
C31_Succeeded == file_pc = "removing" /\ total' # total

C31_DeleteStep ==
  /\ C31_Succeeded /\ C31_PageGone =>
       /\ Len(pagination_calls') = Len(pagination_calls) + 1
       /\ SubSeq(pagination_calls', 1, Len(pagination_calls)) = pagination_calls
       /\ LET arg == pagination_calls'[Len(pagination_calls')]
          IN  /\ arg >= 1
              /\ (arg - 1) * size < Max(1, C31_Left)
              /\ arg * size >= C31_Left
              /\ C31_Left = 0 => arg = 1
  /\ C31_Succeeded /\ ~C31_PageGone => pagination_calls' = pagination_calls
  /\ ~C31_Succeeded => pagination_calls' = pagination_calls

C31_ActiveQueryPagination == [][C31_DeleteStep]_vars

\* page 2 of size 10 was set back to 1 after the only file of the active
\* query was deleted, the cached query of another search holding 100
C31_Witness ==
  /\ file_pc = "ready" /\ size = 10 /\ stale_total = 100
  /\ total = 0 /\ page = 1 /\ pagination_calls = << 1 >>

(***************************************************************************)
(* C32: a read of elements never changes content; with the cache computed  *)
(* it leaves the cache as it is and returns it, with the cache uncomputed  *)
(* it derives the elements from content, once, and caches them; so reads   *)
(* with no content assignment and no populate_elements between them return *)
(* the same sequence.                                                      *)
(***************************************************************************)
\* the step is a call of the operation op
C32_IsCall(op) == Len(calls') = Len(calls) + 1 /\ calls'[Len(calls')].op = op

C32_ReadStep ==
  C32_IsCall("elements") =>
    /\ _content' = _content
    /\ _elements' # None
    /\ calls'[Len(calls')].ret = _elements'[1]
    /\ IF _elements = None
       THEN _elements' = Some(ParseElements(_content))
       ELSE _elements' = _elements

\* no content assignment and no populate_elements among the calls i..j
C32_NoWriteBetween(i, j) ==
  \A k \in i..j : calls[k].op \notin { "set_content", "populate_elements" }

C32_SameReads ==
  \A i, j \in 1..Len(calls) :
    (/\ i < j
     /\ calls[i].op = "elements" /\ calls[j].op = "elements"
     /\ C32_NoWriteBetween(i, j)) => calls[j].ret = calls[i].ret

C32_LazyDerivationOnce == []C32_SameReads /\ [][C32_ReadStep]_vars

\* two reads in a row of a document with a heading and a paragraph: the
\* first derived the two elements, the second returned the same
C32_Witness ==
  /\ Len(calls) = 2
  /\ calls[1].op = "elements" /\ calls[2].op = "elements"
  /\ Len(calls[1].ret) = 2
  /\ calls[1].ret[1].type = "heading"
  /\ calls[2].ret = calls[1].ret
  /\ _elements = Some(calls[1].ret)

(***************************************************************************)
(* C33: every content assignment leaves the cache uncomputed, whatever the *)
(* content was before (the same text included) and whatever the cache held *)
(* (a pre-seeded list included); so the cache holds a pre-seeded list, and *)
(* the getter returns it, only while no content assignment has followed    *)
(* the populate_elements call.                                             *)
(***************************************************************************)
C33_SetStep ==
  C32_IsCall("set_content") =>
    /\ _content' = calls'[Len(calls')].arg
    /\ _elements' = None

\* the calls made since the last content assignment
C33_Since ==
  LET sets == { k \in 1..Len(calls) : calls[k].op = "set_content" }
      from == IF sets = {} THEN 1
              ELSE 1 + CHOOSE k \in sets : \A m \in sets : m <= k
  IN  { calls[k].op : k \in from..Len(calls) }

\* the cache is uncomputed until a read or a populate_elements follows the
\* last content assignment, and holds a list that is not derived from the
\* content only if a populate_elements followed it
C33_Invalidated ==
  /\ _elements = None <=> C33_Since \cap { "elements", "populate_elements" } = {}
  /\ (_elements # None /\ "populate_elements" \notin C33_Since)
       => _elements = Some(ParseElements(_content))

C33_SetterInvalidates == []C33_Invalidated /\ [][C33_SetStep]_vars

\* a content was assigned, a list pre-seeded, the same content assigned
\* again: the read that follows returns the derived elements
C33_Witness ==
  /\ Len(calls) = 4
  /\ calls[1].op = "set_content" /\ calls[1].arg = << LineH1A, LineText1 >>
  /\ calls[2].op = "populate_elements" /\ calls[2].arg[1].type = "table"
  /\ calls[3].op = "set_content" /\ calls[3].arg = calls[1].arg
  /\ calls[4].op = "elements"
  /\ calls[4].ret = ParseElements(calls[3].arg)
  /\ calls[4].ret # calls[2].arg

(***************************************************************************)
(* C34: the scan of a fence line flips code_block, appends the line to the *)
(* current section and leaves the chunks and the header stack alone; the   *)
(* scan of any other line leaves code_block alone; so code_block holds     *)
(* exactly when the lines scanned so far hold an odd number of fence       *)
(* lines.                                                                  *)
(***************************************************************************)
\* the step scans the line at pos
C34_Scans == pc = "scan" /\ pos <= Len(lines) /\ pos' = pos + 1

C34_FenceStep ==
  /\ C34_Scans /\ IsFenceLine(lines[pos]) =>
       /\ code_block' = ~code_block
       /\ current_section' = current_section \o lines[pos] \o << NL >>
       /\ chunks' = chunks
       /\ header_stack' = header_stack
  /\ ~(C34_Scans /\ IsFenceLine(lines[pos])) => code_block' = code_block

C34_ModeParity ==
  pc \in { "scan", "done" } =>
    (code_block <=> FenceCount(lines, pos - 1) % 2 = 1)

C34_FenceToggles == []C34_ModeParity /\ [][C34_FenceStep]_vars

\* a fence was opened over a header line and closed again: two flips, the
\* three lines in the buffer, nothing emitted, nothing on the stack
C34_Witness ==
  /\ pc = "scan" /\ pos = 4
  /\ IsFenceLine(lines[1]) /\ HeaderMatch(lines[2]) /\ IsFenceLine(lines[3])
  /\ ~code_block
  /\ current_section = Unlines(SubSeq(lines, 1, 3))
  /\ chunks = <<>> /\ header_stack = <<>>

(***************************************************************************)
(* C35: every frame of the header stack has a level from 1 to 6, the stack *)
(* holds at most 6 frames and no header_path is longer than 6.             *)
(***************************************************************************)
C35_LevelsWithinSix ==
  /\ \A i \in 1..Len(header_stack) : header_stack[i][1] \in HeadingLevels
  /\ Len(header_stack) <= Cardinality(HeadingLevels)
  /\ \A i \in 1..Len(chunks) :
       Len(chunks[i].header_path) <= Cardinality(HeadingLevels)

(***************************************************************************)
(* C36: after a fence that is opened and never closed, no line changes the *)
(* chunks or the header stack before the end of the input, header-pattern  *)
(* lines included; the final chunk holds the section that was open at the  *)
(* fence and every line from the fence on, under the header path of the    *)
(* stack as it was when the fence opened.                                  *)
(***************************************************************************)
\* line f opens a fence that no later line closes
C36_OpensForGood(ls, f) ==
  /\ f \in 1..Len(ls) /\ IsFenceLine(ls[f])
  /\ FenceCount(ls, f - 1) % 2 = 0
  /\ \A j \in (f + 1)..Len(ls) : ~IsFenceLine(ls[j])

\* the scan state when line f is reached
C36_AtFence(ls, f) == ScanFrom(ScanStart, SubSeq(ls, 1, f - 1))

C36_FinalChunk ==
  \A f \in 1..Len(lines) :
    (Done /\ C36_OpensForGood(lines, f)) =>
      /\ header_stack = C36_AtFence(lines, f).header_stack
      /\ chunks =
           Append(C36_AtFence(lines, f).chunks,
                  [ text |-> C36_AtFence(lines, f).current_section
                               \o Unlines(SubSeq(lines, f, Len(lines))),
                    header_path |-> StackTexts(C36_AtFence(lines, f).header_stack) ])

C36_InsideStep ==
  (/\ pc = "scan" /\ pos <= Len(lines)
   /\ \E f \in 1..pos : C36_OpensForGood(lines, f))
    => chunks' = chunks /\ header_stack' = header_stack

C36_UnclosedFenceIsBody == []C36_FinalChunk /\ [][C36_InsideStep]_vars

\* under the header A a fence opens and stays open over a blank line and a
\* header-pattern line: one chunk, its path the one of A
C36_Witness ==
  /\ Done
  /\ lines = << LineH1A, LineFence, LineBlank, LineH2B >>
  /\ Len(chunks) = 1
  /\ chunks[1].header_path = << << "A" >> >>
  /\ chunks[1].text = Unlines(lines)
  /\ Len(header_stack) = 1

(***************************************************************************)
(* C37: every process call ends, with a Standardized Document, a Partial   *)
(* Result or an OrchestrationError; each candidate starts with a budget of *)
(* its own and stays within its max_attempts, so the Parser Client         *)
(* attempts of the call never exceed candidates times max_attempts.        *)
(***************************************************************************)
OrchestrationErrors == { "AllBackendsFailed", "InvalidIR" }

C37_Finished ==
  /\ orch_pc = "done"
  /\ result \in { "StandardizedDocument", "PartialResult" } \cup OrchestrationErrors

C37_Budget ==
  orch_pc # "idle" =>
    /\ candidate <= Len(chain)
    /\ attempts <= policy.max_attempts
    /\ parser_attempts <= candidate * DefaultMaxAttempts
    /\ orch_pc # "done" => result = "none"

C37_BudgetStep ==
  /\ candidate' # candidate =>
       /\ candidate' = candidate + 1
       /\ attempts' = 0 /\ clock' = 0
       /\ policy'.max_attempts = DefaultMaxAttempts
       /\ parser_attempts' = parser_attempts
  /\ candidate' = candidate =>
       /\ policy' = policy
       /\ parser_attempts' - parser_attempts = attempts' - attempts
       /\ attempts' \in { attempts, attempts + 1 }
  /\ orch_pc = "done" => UNCHANGED << result, parser_attempts >>

C37_CallTerminates ==
  /\ <>C37_Finished
  /\ []C37_Budget
  /\ [][C37_BudgetStep]_vars

\* a chain of three candidates failed as a whole after every candidate had
\* used all its attempts
C37_Witness ==
  /\ orch_pc = "done" /\ result = "AllBackendsFailed"
  /\ Len(chain) = 3
  /\ parser_attempts = 3 * DefaultMaxAttempts

(***************************************************************************)
(* C38: a record that live traffic has written since the migration read it *)
(* is left with the live value by the commit of the transaction: the       *)
(* migration writes the path derived from the value it read only where     *)
(* that legacy value is still stored.                                      *)
(***************************************************************************)
\* record r of the open transaction was written after the job read it
C38_Overtaken(r) ==
  /\ r \in batch
  /\ batch_read[r].shape = "scalar"
  /\ IsVersionedArray(table[r])

C38_CommitStep ==
  MigrationStep =>
    \A r \in batch :
      IF C38_Overtaken(r)
      THEN SameRecord(table'[r], table[r])
      ELSE /\ SameRecord(table[r], batch_read[r])
           /\ SameRecord(table'[r], Migrated(batch_read[r]))

C39_AllMigrated ==
  backlog = 0 /\ \A r \in RecordIds : IsVersionedArray(table[r])

C39_Ended == mig_pc = "finished" => C39_AllMigrated

\* the step is one of the job (live traffic leaves mig_pc alone)
C39_JobStep == mig_pc' # mig_pc

C39_TaggedKept ==
  C39_JobStep =>
    /\ \A r \in RecordIds :
         IsVersionedArray(table[r]) => SameRecord(table'[r], table[r])
    /\ C39_AllMigrated =>
         /\ backlog' = backlog
         /\ mig_pc' \in { "scan", "finished" }

C39_MigrationTerminates ==
  /\ <>(mig_pc = "finished")
  /\ []C39_Ended
  /\ [][C39_TaggedKept]_vars

\* the job ended: the scalar "/A/B" became the array of A and B, and the
\* record that carried the tag from the start is as it was
C39_Witness ==
  /\ mig_pc = "finished"
  /\ C39_AllMigrated
  /\ \E r1, r2 \in RecordIds :
       /\ table[r1].header_path = PathAB
       /\ table[r2].header_path = << << "A" >> >>
=============================================================================
